---- MODULE Spec2Model ----
(***************************************************************************)
(* State-machine model of the hatchery -> barn discrete-event simulation   *)
(* of src/simulation/model.py (class ChickSimulation, on top of SimPy).    *)
(*                                                                         *)
(* Simulated time is counted in ticks of half a day, the polling interval  *)
(* of the barn allocator (timeout(0.5), model.py:409).  The SimPy event    *)
(* queue is modelled as it works: events are processed in the order        *)
(* (time, priority, scheduling order); a process runs from one yield to    *)
(* the next in one step.  Each action below is one such code segment.      *)
(***************************************************************************)
EXTENDS Integers, Sequences, FiniteSets, TLC

(***************************************************************************)
(* Bounds of the model.                                                    *)
(***************************************************************************)
\* the shipment generator (unbounded in the code) stops after this many
MaxShipments == 2
\* the egg quantities and cart sizes the cart split is checked for
MaxEggs == 10
MaxCartEggs == 4
\* sampled rates (Beta variates in [0,1]) are the fractions k/RateDen
RateDen == 2
\* the amounts BarnPlace.add and BarnPlace.decrement are called with on their own
MaxAmount == 3

(***************************************************************************)
(* SimulationConfig: a small instance of the parameter set of              *)
(* src/simulation/config.py.  Durations are in ticks (half days).          *)
(***************************************************************************)
TicksPerDay == 2
SecondsPerTick == 43200
shipment_eggs == 3
pre_hatch_cart_eggs == 2
pre_hatch_machines == 2
pre_hatch_carts_per_machine == 1
hatch_machines == 2
hatch_carts_per_machine == 1
pre_hatch_days == 1
hatch_days_lo == 1
hatch_days_hi == 2
sort_and_vaccinate == 1
load_to_transport == 0
transport_time_days == 1
grow_out_lo == 1
grow_out_hi == 2
cleaning_days == 2
chicks_per_truck == 2
active_trucks == 2
simulation_days == 12
\* the allocator's polling interval, timeout(0.5): half a day
PollInterval == 1

\* the farms: capacity in chicks and number of barns of each
FARM_SPECS == << [capacity_chicks |-> 4, barns |-> 2] >>

total_pre_hatch_slots == pre_hatch_machines * pre_hatch_carts_per_machine
total_hatch_slots == hatch_machines * hatch_carts_per_machine

Shipments == 0 .. (MaxShipments - 1)
Rates == 0 .. RateDen

(***************************************************************************)
(* Pure helpers.                                                           *)
(***************************************************************************)
Min(a, b) == IF a <= b THEN a ELSE b
Max(a, b) == IF a >= b THEN a ELSE b

\* math.ceil(a / b) for a >= 0, b > 0
Ceil_Floor(a, b) == a \div b

Ceil(a, b) == (a + b - 1) \div b

\* int(round(n / d)): Python rounds a half to the even neighbour
RoundHalfEven(n, d) ==
  LET q == n \div d
      r == n % d
  IN  IF 2 * r < d THEN q
      ELSE IF 2 * r > d THEN q + 1
      ELSE IF q % 2 = 0 THEN q ELSE q + 1

\* the rate applied twice over
Yield_Doubled(amount, k) == RoundHalfEven(amount * k * 2, RateDen)

\* int(round(amount * rate)) for the sampled rate k/RateDen
Yield(amount, k) == RoundHalfEven(amount * k, RateDen)

\* the slot identifiers of a store, in the order _populate_machine_slots puts them
MachineSlots(machines, per_machine) ==
  [n \in 1 .. (machines * per_machine) |->
     [m |-> ((n - 1) \div per_machine) + 1, c |-> ((n - 1) % per_machine) + 1]]

\* every chunk of full size, the last one too
RECURSIVE SplitCarts_NoMin(_, _)
SplitCarts_NoMin(remaining, size) ==
  IF remaining <= 0 THEN <<>>
  ELSE <<size>> \o SplitCarts_NoMin(remaining - size, size)

\* the cart chunks of a shipment: the while loop of _handle_shipment
RECURSIVE SplitCarts(_, _)
SplitCarts(remaining, size) ==
  IF remaining <= 0 THEN <<>>
  ELSE LET cart_eggs == Min(size, remaining)
       IN  <<cart_eggs>> \o SplitCarts(remaining - cart_eggs, size)

\* the barn places of one farm: capacity split evenly, the remainder to the first barns
FarmPlaces(spec) ==
  LET base == spec.capacity_chicks \div spec.barns
      extra == spec.capacity_chicks % spec.barns
  IN  [b \in 1 .. spec.barns |-> base + (IF b - 1 < extra THEN 1 ELSE 0)]

RECURSIVE InitialiseBarnPlaces(_)
InitialiseBarnPlaces(specs) ==
  IF specs = <<>> THEN <<>>
  ELSE FarmPlaces(Head(specs)) \o InitialiseBarnPlaces(Tail(specs))

Capacity == InitialiseBarnPlaces(FARM_SPECS)
Places == 1 .. Len(Capacity)

(***************************************************************************)
(* The state.                                                              *)
(***************************************************************************)
VARIABLES
  cfg,            \* the SimulationConfig fields that differ between the specifications
  now,            \* env.now, in ticks
  queue,          \* the SimPy event queue, sorted by (time, priority, order)
  gen,            \* the shipment generator process: counters and position
  ship,           \* per shipment: the _handle_shipment process and its locals
  cart,           \* per shipment: its _process_cart processes and their locals
  pre_hatch_slots, \* FilterStore: items and waiting get requests
  hatch_slots,    \* FilterStore: items and waiting get requests
  truck_slots,    \* Container: level and waiting get requests
  barn_lock,      \* Resource(capacity=1): users and waiting requests
  barn_places,    \* per place: occupants, occupied, cleaning_until
  preferred,      \* _preferred_setter and _preferred_hatcher
  cycles,         \* the _manage_farm_cycle processes
  slaughter_records,
  call,           \* the last BarnPlace method called on its own: arguments and result
  flow            \* per slot: the last flow record written for it and their number

vars == << cfg, now, queue, gen, ship, cart, pre_hatch_slots, hatch_slots, truck_slots,
           barn_lock, barn_places, preferred, cycles, slaughter_records, call, flow >>

(***************************************************************************)
(* Processes and events.                                                   *)
(***************************************************************************)
Proc(k, s, i) == [k |-> k, s |-> s, i |-> i]
GenProc == Proc("gen", 0, 0)
ShipProc(s) == Proc("ship", s, 0)
CartProc(s, i) == Proc("cart", s, i)
FarmProc(n) == Proc("farm", n, 0)

URGENT == 0
NORMAL == 1

Event(t, pri, kind, p) == [t |-> t, pri |-> pri, kind |-> kind, p |-> p]

\* env.schedule: after every queued event that is not later
Schedule(q, e) ==
  LET n == Cardinality({j \in 1 .. Len(q) :
                          q[j].t < e.t \/ (q[j].t = e.t /\ q[j].pri <= e.pri)})
  IN  SubSeq(q, 1, n) \o <<e>> \o SubSeq(q, n + 1, Len(q))

RECURSIVE ScheduleAll(_, _)
ScheduleAll(q, es) ==
  IF es = <<>> THEN q ELSE ScheduleAll(Schedule(q, Head(es)), Tail(es))

\* env.run(until=simulation_days): the next event, if the horizon is not reached
Runnable == queue /= <<>> /\ Head(queue).t < simulation_days
ev == Head(queue)
rest == Tail(queue)

(***************************************************************************)
(* FilterStore: a get takes the first item its filter accepts; every       *)
(* waiting get is tried in request order (FilterStore._do_get).            *)
(***************************************************************************)
Accepts(filter, slot) == filter = 0 \/ slot.m = filter

FirstMatch(items, filter) ==
  LET js == {j \in 1 .. Len(items) : Accepts(filter, items[j])}
  IN  IF js = {} THEN 0 ELSE CHOOSE j \in js : \A k \in js : j <= k

RemoveAt(sq, j) == SubSeq(sq, 1, j - 1) \o SubSeq(sq, j + 1, Len(sq))

RECURSIVE TriggerGetFrom(_, _, _)
TriggerGetFrom(store, idx, served) ==
  IF idx > Len(store.getq) THEN [store |-> store, served |-> served]
  ELSE LET g == store.getq[idx]
           j == FirstMatch(store.items, g.filter)
       IN  IF j = 0 THEN TriggerGetFrom(store, idx + 1, served)
           ELSE TriggerGetFrom(
                  [items |-> RemoveAt(store.items, j), getq |-> RemoveAt(store.getq, idx)],
                  idx, Append(served, [p |-> g.p, slot |-> store.items[j]]))

TriggerGet(store) == TriggerGetFrom(store, 1, <<>>)

\* the request is put before the waiting ones
StoreGet_First(store, p, filter) ==
  TriggerGet([store EXCEPT !.getq = <<[p |-> p, filter |-> filter]>> \o @])

\* store.get(filter) by process p, then the trigger the request runs
StoreGet(store, p, filter) ==
  TriggerGet([store EXCEPT !.getq = Append(@, [p |-> p, filter |-> filter])])

\* the slot put back twice
StorePut_Twice(store, slot) == [store EXCEPT !.items = Append(Append(@, slot), slot)]

\* store.put(slot): the stores are never full, the item is taken at once
StorePut(store, slot) == [store EXCEPT !.items = Append(@, slot)]

\* the get events that succeeded: one resume event per served process
RECURSIVE ResumeEvents(_, _)
ResumeEvents(served, t) ==
  IF served = <<>> THEN <<>>
  ELSE <<Event(t, NORMAL, "resume", Head(served).p)>> \o ResumeEvents(Tail(served), t)

\* the value of each succeeded get event, kept for the cart that asked
RECURSIVE Deliver(_, _, _)
Deliver(c, served, fld) ==
  IF served = <<>> THEN c
  ELSE LET h == Head(served)
       IN  Deliver([c EXCEPT ![h.p.s][h.p.i][fld] = h.slot], Tail(served), fld)

NoSlot == [m |-> 0, c |-> 0]

(***************************************************************************)
(* Init: the state after ChickSimulation.__init__ and the first line of    *)
(* run(), which starts the generator.                                      *)
(***************************************************************************)
NoShipment ==
  [pc |-> "none", parent_pair |-> 0, ncarts |-> 0, joined |-> 0,
   total_discarded |-> 0, total_fertile |-> 0, total_chicks |-> 0,
   total_hatch_losses |-> 0, trucks_needed |-> 0, remaining_chicks |-> 0,
   truck_counter |-> 0, load |-> 0, plan |-> <<>>, remaining |-> 0,
   ordered_ids |-> <<>>, idx |-> 0, candidate_id |-> 0, applying |-> 0,
   added |-> 0, placed |-> <<>>]

\* FlowWriter: no record for the slot yet
NoRecord == [n |-> 0, to_state |-> "none", cart_id |-> 0, event_ts |-> 0]

\* the stamp keeps the date only
current_timestamp_Date(t) == (t \div TicksPerDay) * TicksPerDay * SecondsPerTick

\* _current_timestamp at time t: start_date + timedelta(days=env.now), in seconds
\* after start_date
current_timestamp(t) == t * SecondsPerTick

\* flow_writer.log for a slot: the record that follows `last`
FlowRecord(last, to_state, cart_id, t) ==
  [n |-> last.n + 1, to_state |-> to_state, cart_id |-> cart_id,
   event_ts |-> current_timestamp(t)]

\* no flow record is written yet
NoFlow(c) ==
  [setter |-> [x \in {MachineSlots(c.pre_hatch_machines, pre_hatch_carts_per_machine)[j] :
                        j \in 1 .. (c.pre_hatch_machines * pre_hatch_carts_per_machine)}
                 |-> NoRecord],
   hatcher |-> [x \in {MachineSlots(hatch_machines, hatch_carts_per_machine)[j] :
                         j \in 1 .. total_hatch_slots} |-> NoRecord]]

\* no BarnPlace method was called on its own
NoCall == [op |-> "none", place_id |-> 0, shipment_id |-> 0, amount |-> 0, ret |-> 0]

\* the processes, pools and records after construction, for a plan of `trucks`
\* active trucks
ConstructedWith(trucks) ==
  /\ now = 0
  /\ queue = << Event(0, URGENT, "init", GenProc) >>
  /\ gen = [pc |-> "init", today |-> 0, k |-> 0, shipment_counter |-> 0, parent_pairs |-> 1]
  /\ ship = [s \in Shipments |-> NoShipment]
  /\ cart = [s \in Shipments |-> <<>>]
  /\ pre_hatch_slots =
       [items |-> MachineSlots(cfg.pre_hatch_machines, pre_hatch_carts_per_machine),
        getq |-> <<>>]
  /\ hatch_slots =
       [items |-> MachineSlots(hatch_machines, hatch_carts_per_machine), getq |-> <<>>]
  /\ truck_slots = [level |-> trucks, getq |-> <<>>]
  /\ barn_lock = [users |-> <<>>, putq |-> <<>>]
  /\ preferred = [setter |-> [s \in Shipments |-> 0], hatcher |-> [s \in Shipments |-> 0]]
  /\ cycles = <<>>
  /\ slaughter_records = <<>>
  /\ call = NoCall
  /\ flow = NoFlow(cfg)

Constructed == ConstructedWith(active_trucks)

\* _initialise_barn_places: one empty BarnPlace per capacity of the list
EmptyPlaces(capacity) ==
  [p \in 1 .. Len(capacity) |->
     [capacity |-> capacity[p], occupants |-> [x \in {} |-> 0], occupied |-> 0,
      cleaning_until |-> 0]]

Started ==
  /\ Constructed
  /\ barn_places = EmptyPlaces(Capacity)

\* the configuration of the run; here every cart hatches in hatch_days_lo
Init ==
  /\ cfg = [shipment_eggs |-> shipment_eggs, pre_hatch_cart_eggs |-> pre_hatch_cart_eggs,
            hatch_days_range |-> <<hatch_days_lo, hatch_days_lo>>,
            pre_hatch_machines |-> pre_hatch_machines, pre_hatch_days |-> pre_hatch_days]
  /\ Started

(***************************************************************************)
(* _generate_shipments.                                                    *)
(***************************************************************************)
\* max(1, poisson(mean)): the counts whose interval 1/n is a whole number of ticks
TodayChoices == {n \in 1 .. TicksPerDay : TicksPerDay % n = 0}

\* the shipment is started and the generator goes on without the timeout
SpawnShipment_Now(g, interval) ==
  /\ ship' = [ship EXCEPT ![g.shipment_counter] =
                [NoShipment EXCEPT !.pc = "init", !.parent_pair = g.parent_pairs]]
  /\ queue' = Schedule(
                Schedule(rest, Event(ev.t, URGENT, "init", ShipProc(g.shipment_counter))),
                Event(ev.t, NORMAL, "resume", GenProc))

\* env.process(self._handle_shipment(shipment_id, parent_pair_id)), then
\* yield self.env.timeout(interval)
SpawnShipment(g, interval) ==
  /\ ship' = [ship EXCEPT ![g.shipment_counter] =
                [NoShipment EXCEPT !.pc = "init", !.parent_pair = g.parent_pairs]]
  /\ queue' = Schedule(
                Schedule(rest, Event(ev.t, URGENT, "init", ShipProc(g.shipment_counter))),
                Event(ev.t + interval, NORMAL, "resume", GenProc))

\* the top of the while loop: sample the day's count, start its first shipment
GenerateDay ==
  /\ Runnable
  /\ ev.p = GenProc
  /\ gen.pc \in {"init", "day_end"}
  /\ now' = ev.t
  /\ IF gen.shipment_counter >= MaxShipments
     THEN /\ gen' = [gen EXCEPT !.pc = "stopped"]
          /\ queue' = rest
          /\ UNCHANGED ship
     ELSE \E n \in TodayChoices :
            /\ gen' = [gen EXCEPT !.pc = "spawning", !.today = n, !.k = 1,
                                  !.shipment_counter = @ + 1,
                                  !.parent_pairs = (@ % 15) + 1]
            /\ SpawnShipment(gen, TicksPerDay \div n)
  /\ UNCHANGED << cfg, call, flow, cart, pre_hatch_slots, hatch_slots, truck_slots, barn_lock,
                  barn_places, preferred, cycles, slaughter_records >>

\* after timeout(interval): the next shipment of the day, or the day's last timeout
GenerateNext ==
  /\ Runnable
  /\ ev.p = GenProc
  /\ gen.pc = "spawning"
  /\ now' = ev.t
  /\ IF gen.k >= gen.today
     THEN \* max(0.0, 1.0 - shipments_today * interval) = 0
          /\ gen' = [gen EXCEPT !.pc = "day_end"]
          /\ queue' = Schedule(rest, Event(ev.t, NORMAL, "resume", GenProc))
          /\ UNCHANGED ship
     ELSE IF gen.shipment_counter >= MaxShipments
     THEN /\ gen' = [gen EXCEPT !.pc = "stopped"]
          /\ queue' = rest
          /\ UNCHANGED ship
     ELSE /\ gen' = [gen EXCEPT !.k = @ + 1, !.shipment_counter = @ + 1,
                                !.parent_pairs = (@ % 15) + 1]
          /\ SpawnShipment(gen, TicksPerDay \div gen.today)
  /\ UNCHANGED << cfg, call, flow, cart, pre_hatch_slots, hatch_slots, truck_slots, barn_lock,
                  barn_places, preferred, cycles, slaughter_records >>

(***************************************************************************)
(* _handle_shipment, up to the join.                                       *)
(***************************************************************************)
NewCart(eggs) ==
  [pc |-> "init", eggs |-> eggs, slot_id |-> NoSlot, hatch_slot_id |-> NoSlot,
   fertile |-> 0, discarded |-> 0, chicks |-> 0, hatch_losses |-> 0]

RECURSIVE CartInits(_, _, _, _)
CartInits(s, i, n, t) ==
  IF i > n THEN <<>>
  ELSE <<Event(t, URGENT, "init", CartProc(s, i))>> \o CartInits(s, i + 1, n, t)

\* arrival: split into carts, start one _process_cart per cart, wait for AllOf
HandleShipment ==
  /\ Runnable
  /\ ev.kind = "init"
  /\ ev.p.k = "ship"
  /\ now' = ev.t
  /\ LET s == ev.p.s
         chunks == SplitCarts(cfg.shipment_eggs, cfg.pre_hatch_cart_eggs)
     IN  /\ cart' = [cart EXCEPT ![s] = [i \in 1 .. Len(chunks) |-> NewCart(chunks[i])]]
         \* without carts there is nothing to wait for: the totals are zero and the
         \* shipment ends at once
         /\ ship' = [ship EXCEPT ![s].pc = IF chunks = <<>> THEN "empty" ELSE "join",
                                 ![s].ncarts = Len(chunks)]
         /\ queue' = ScheduleAll(rest, CartInits(s, 1, Len(chunks), ev.t))
  /\ UNCHANGED << cfg, call, flow, gen, pre_hatch_slots, hatch_slots, truck_slots, barn_lock,
                  barn_places, preferred, cycles, slaughter_records >>

(***************************************************************************)
(* _process_cart.                                                          *)
(***************************************************************************)
\* request a setter slot, with the shipment's preferred machine as filter if it has one
CartStart ==
  /\ Runnable
  /\ ev.kind = "init"
  /\ ev.p.k = "cart"
  /\ now' = ev.t
  /\ LET s == ev.p.s
         i == ev.p.i
         r == StoreGet(pre_hatch_slots, ev.p, preferred.setter[s])
     IN  /\ pre_hatch_slots' = r.store
         /\ cart' = Deliver([cart EXCEPT ![s][i].pc = "setter_get"], r.served, "slot_id")
         /\ queue' = ScheduleAll(rest, ResumeEvents(r.served, ev.t))
  /\ UNCHANGED << cfg, call, flow, gen, ship, hatch_slots, truck_slots, barn_lock, barn_places,
                  preferred, cycles, slaughter_records >>

\* the setter slot is acquired: hold it for pre_hatch_days
CartSetterAcquired ==
  /\ Runnable
  /\ ev.kind = "resume"
  /\ ev.p.k = "cart"
  /\ cart[ev.p.s][ev.p.i].pc = "setter_get"
  /\ now' = ev.t
  /\ cart' = [cart EXCEPT ![ev.p.s][ev.p.i].pc = "setter_hold"]
  /\ flow' = [flow EXCEPT !.setter[cart[ev.p.s][ev.p.i].slot_id] =
                FlowRecord(@, "acquired", ev.p, ev.t)]
  /\ queue' = Schedule(rest, Event(ev.t + cfg.pre_hatch_days, NORMAL, "resume", ev.p))
  /\ UNCHANGED << cfg, call, gen, ship, pre_hatch_slots, hatch_slots, truck_slots, barn_lock,
                  barn_places, preferred, cycles, slaughter_records >>

\* yield self.pre_hatch_slots.put(slot_id)
CartSetterPut ==
  /\ Runnable
  /\ ev.kind = "resume"
  /\ ev.p.k = "cart"
  /\ cart[ev.p.s][ev.p.i].pc = "setter_hold"
  /\ now' = ev.t
  /\ pre_hatch_slots' = StorePut(pre_hatch_slots, cart[ev.p.s][ev.p.i].slot_id)
  /\ cart' = [cart EXCEPT ![ev.p.s][ev.p.i].pc = "setter_put"]
  /\ queue' = Schedule(rest, Event(ev.t, NORMAL, "putdone", ev.p))
  /\ UNCHANGED << cfg, call, flow, gen, ship, hatch_slots, truck_slots, barn_lock, barn_places,
                  preferred, cycles, slaughter_records >>

\* the put event: waiting setter gets are served, then the cart goes on: preferred
\* setter, x-ray split, request of a hatcher slot
CartScreen ==
  /\ Runnable
  /\ ev.kind = "putdone"
  /\ cart[ev.p.s][ev.p.i].pc = "setter_put"
  /\ now' = ev.t
  /\ \E pass_rate \in Rates :
     \E w \in {TriggerGet(pre_hatch_slots)} :
     \E r \in {StoreGet(hatch_slots, ev.p, preferred.hatcher[ev.p.s])} :
     \E c1 \in {Deliver(cart, w.served, "slot_id")} :
       LET s == ev.p.s
           i == ev.p.i
           me == cart[s][i]
           fertile == Yield(me.eggs, pass_rate)
           c2 == [c1 EXCEPT ![s][i].pc = "hatcher_get", ![s][i].slot_id = NoSlot,
                            ![s][i].fertile = fertile,
                            ![s][i].discarded = me.eggs - fertile]
       IN  /\ pre_hatch_slots' = w.store
           /\ hatch_slots' = r.store
           /\ preferred' = IF preferred.setter[s] = 0
                           THEN [preferred EXCEPT !.setter[s] = me.slot_id.m]
                           ELSE preferred
           /\ cart' = Deliver(c2, r.served, "hatch_slot_id")
           /\ flow' = [flow EXCEPT !.setter[me.slot_id] =
                         FlowRecord(@, "released", ev.p, ev.t)]
           /\ queue' = ScheduleAll(rest, ResumeEvents(w.served, ev.t)
                                         \o ResumeEvents(r.served, ev.t))
  /\ UNCHANGED << cfg, call, gen, ship, truck_slots, barn_lock, barn_places, cycles,
                  slaughter_records >>

\* a hatch may last a tick longer than the range allows
HatchDurations_Over(range) == range[1] .. (range[2] + 1)

\* rng.uniform(*hatch_days_range): the whole numbers of ticks in the range
HatchDurations(range) == range[1] .. range[2]

\* the hatcher slot is acquired: hold it for a duration within hatch_days_range
CartHatcherAcquired ==
  /\ Runnable
  /\ ev.kind = "resume"
  /\ ev.p.k = "cart"
  /\ cart[ev.p.s][ev.p.i].pc = "hatcher_get"
  /\ now' = ev.t
  /\ \E hatch_duration \in HatchDurations(cfg.hatch_days_range) :
       /\ cart' = [cart EXCEPT ![ev.p.s][ev.p.i].pc = "hatcher_hold"]
       /\ flow' = [flow EXCEPT !.hatcher[cart[ev.p.s][ev.p.i].hatch_slot_id] =
                     FlowRecord(@, "acquired", ev.p, ev.t)]
       /\ queue' = Schedule(rest, Event(ev.t + hatch_duration, NORMAL, "resume", ev.p))
  /\ UNCHANGED << cfg, call, gen, ship, pre_hatch_slots, hatch_slots, truck_slots, barn_lock,
                  barn_places, preferred, cycles, slaughter_records >>

\* preferred hatcher, hatch split, yield self.hatch_slots.put(hatch_slot_id)
CartHatch ==
  /\ Runnable
  /\ ev.kind = "resume"
  /\ ev.p.k = "cart"
  /\ cart[ev.p.s][ev.p.i].pc = "hatcher_hold"
  /\ now' = ev.t
  /\ \E hatch_rate \in Rates :
       LET s == ev.p.s
           i == ev.p.i
           me == cart[s][i]
           chicks == Yield(me.fertile, hatch_rate)
       IN  /\ preferred' = IF preferred.hatcher[s] = 0
                           THEN [preferred EXCEPT !.hatcher[s] = me.hatch_slot_id.m]
                           ELSE preferred
           /\ hatch_slots' = StorePut(hatch_slots, me.hatch_slot_id)
           /\ cart' = [cart EXCEPT ![s][i].pc = "hatcher_put", ![s][i].chicks = chicks,
                                   ![s][i].hatch_losses = me.fertile - chicks]
           /\ queue' = Schedule(rest, Event(ev.t, NORMAL, "putdone", ev.p))
  /\ UNCHANGED << cfg, call, flow, gen, ship, pre_hatch_slots, truck_slots, barn_lock, barn_places,
                  cycles, slaughter_records >>

\* the put event: waiting hatcher gets are served, the cart returns its CartResult
CartReturn ==
  /\ Runnable
  /\ ev.kind = "putdone"
  /\ cart[ev.p.s][ev.p.i].pc = "hatcher_put"
  /\ now' = ev.t
  /\ LET w == TriggerGet(hatch_slots)
         c1 == Deliver(cart, w.served, "hatch_slot_id")
     IN  /\ hatch_slots' = w.store
         /\ cart' = [c1 EXCEPT ![ev.p.s][ev.p.i].pc = "done",
                               ![ev.p.s][ev.p.i].hatch_slot_id = NoSlot]
         /\ queue' = Schedule(ScheduleAll(rest, ResumeEvents(w.served, ev.t)),
                              Event(ev.t, NORMAL, "end", ev.p))
         /\ flow' = [flow EXCEPT !.hatcher[cart[ev.p.s][ev.p.i].hatch_slot_id] =
                       FlowRecord(@, "released", ev.p, ev.t)]
  /\ UNCHANGED << cfg, call, gen, ship, pre_hatch_slots, truck_slots, barn_lock, barn_places,
                  preferred, cycles, slaughter_records >>

\* the condition fires at the first event counted (AnyOf)
AnyOfFires(count, n) == count = 1

\* AllOf: the condition fires when every event is counted
AllOfFires(count, n) == count = n

\* the cart process's own event: AllOf counts it and fires when all carts are counted
CartJoined ==
  /\ Runnable
  /\ ev.kind = "end"
  /\ ev.p.k = "cart"
  /\ now' = ev.t
  /\ LET s == ev.p.s
     IN  /\ ship' = [ship EXCEPT ![s].joined = @ + 1]
         /\ queue' = IF AllOfFires(ship[s].joined + 1, ship[s].ncarts)
                     THEN Schedule(rest, Event(ev.t, NORMAL, "resume", ShipProc(s)))
                     ELSE rest
  /\ UNCHANGED << cfg, call, flow, gen, cart, pre_hatch_slots, hatch_slots, truck_slots, barn_lock,
                  barn_places, preferred, cycles, slaughter_records >>

RECURSIVE SumField(_, _)
SumField(cs, fld) == IF cs = <<>> THEN 0 ELSE Head(cs)[fld] + SumField(Tail(cs), fld)

\* only a negative total ends the shipment
NoChicks_Negative(total_chicks) == total_chicks < 0

\* the test that ends a shipment without chicks
NoChicks(total_chicks) == total_chicks <= 0

\* after AllOf: the totals over the cart results; zero chicks ends the shipment
Aggregate ==
  /\ Runnable
  /\ ev.kind = "resume"
  /\ ev.p.k = "ship"
  /\ ship[ev.p.s].pc = "join"
  /\ now' = ev.t
  /\ LET s == ev.p.s
         total_chicks == SumField(cart[s], "chicks")
         sh == [ship[s] EXCEPT !.total_discarded = SumField(cart[s], "discarded"),
                               !.total_fertile = SumField(cart[s], "fertile"),
                               !.total_chicks = total_chicks,
                               !.total_hatch_losses = SumField(cart[s], "hatch_losses")]
     IN  IF NoChicks(total_chicks)
         THEN /\ ship' = [ship EXCEPT ![s] = [sh EXCEPT !.pc = "empty"]]
              /\ queue' = rest
         ELSE /\ ship' = [ship EXCEPT ![s] = [sh EXCEPT !.pc = "sort"]]
              /\ queue' = Schedule(rest, Event(ev.t + sort_and_vaccinate, NORMAL,
                                               "resume", ev.p))
  /\ UNCHANGED << cfg, call, flow, gen, cart, pre_hatch_slots, hatch_slots, truck_slots, barn_lock,
                  barn_places, preferred, cycles, slaughter_records >>


(***************************************************************************)
(* Container (truck_slots) and Resource (barn_lock).                       *)
(***************************************************************************)
\* Container._trigger_get: waiting get(1) requests in order, until one cannot be served
RECURSIVE ContainerTriggerGet(_, _)
ContainerTriggerGet(tr, served) ==
  IF tr.getq /= <<>> /\ tr.level >= 1
  THEN ContainerTriggerGet([level |-> tr.level - 1, getq |-> Tail(tr.getq)],
                           Append(served, [p |-> Head(tr.getq)]))
  ELSE [tr |-> tr, served |-> served]

\* truck_slots.get(1) by process p
ContainerGet(tr, p) == ContainerTriggerGet([tr EXCEPT !.getq = Append(@, p)], <<>>)

\* the unit is not returned
ContainerPut_Lost(tr) == tr

\* truck_slots.put(1): the level never exceeds the capacity here, the put is taken at once
ContainerPut(tr) == [tr EXCEPT !.level = @ + 1]

\* Resource._trigger_put: the first waiting request gets the lock if it is free
LockTriggerPut(lk, q, t) ==
  IF lk.putq /= <<>> /\ Len(lk.users) < 1
  THEN [lk |-> [users |-> <<Head(lk.putq)>>, putq |-> Tail(lk.putq)],
        q |-> Schedule(q, Event(t, NORMAL, "resume", Head(lk.putq)))]
  ELSE [lk |-> lk, q |-> q]

\* the request is queued and the free lock is not granted
LockRequest_Waits(lk, q, t, p) == [lk |-> [lk EXCEPT !.putq = Append(@, p)], q |-> q]

\* barn_lock.request() by process p
LockRequest(lk, q, t, p) == LockTriggerPut([lk EXCEPT !.putq = Append(@, p)], q, t)

\* the with block is left with the lock still held
LockRelease_Held(lk, q, t, p) ==
  [lk |-> lk, q |-> Schedule(q, Event(t, NORMAL, "release", p))]

\* leaving the with block: the request is removed from users, its Release event is scheduled
LockRelease(lk, q, t, p) ==
  [lk |-> [lk EXCEPT !.users = SelectSeq(@, LAMBDA u : u /= p)],
   q |-> Schedule(q, Event(t, NORMAL, "release", p))]

(***************************************************************************)
(* BarnPlace.                                                              *)
(***************************************************************************)
remaining_capacity(place) == Max(0, place.capacity - place.occupied)

Get(occupants, shipment_id) ==
  IF shipment_id \in DOMAIN occupants THEN occupants[shipment_id] ELSE 0

\* the assignment forgets the other shipments
Put_Alone(occupants, shipment_id, amount) == [x \in {shipment_id} |-> amount]

Put(occupants, shipment_id, amount) ==
  [x \in DOMAIN occupants \cup {shipment_id} |->
     IF x = shipment_id THEN amount ELSE occupants[x]]

Pop(occupants, shipment_id) ==
  [x \in DOMAIN occupants \ {shipment_id} |-> occupants[x]]

NoOccupants == [x \in {} |-> 0]

\* the amount is recorded for the shipment and not counted
add_Uncounted(place, shipment_id, amount) ==
  [place EXCEPT !.occupants = Put(@, shipment_id, Get(@, shipment_id) + amount)]

add(place, shipment_id, amount) ==
  [place EXCEPT !.occupants = Put(@, shipment_id, Get(@, shipment_id) + amount),
                !.occupied = @ + amount]

\* the amount decrement returns
removal(place, shipment_id, amount) ==
  IF shipment_id \notin DOMAIN place.occupants THEN 0
  ELSE Min(place.occupants[shipment_id], amount)

\* the whole entry of the shipment is removed
decrement_All(place, shipment_id, amount) ==
  [place EXCEPT !.occupants = Pop(@, shipment_id),
                !.occupied = Max(0, @ - Get(place.occupants, shipment_id))]

decrement(place, shipment_id, amount) ==
  IF shipment_id \notin DOMAIN place.occupants THEN place
  ELSE LET current == place.occupants[shipment_id]
           rem == Min(current, amount)
       IN  [place EXCEPT
              !.occupants = IF rem >= current THEN Pop(@, shipment_id)
                            ELSE Put(@, shipment_id, current - rem),
              !.occupied = Max(0, @ - rem)]

RECURSIVE SumOccupants(_)
SumOccupants(occupants) ==
  IF DOMAIN occupants = {} THEN 0
  ELSE LET x == CHOOSE y \in DOMAIN occupants : TRUE
       IN  occupants[x] + SumOccupants(Pop(occupants, x))

(***************************************************************************)
(* _place_truck: its helpers.                                              *)
(***************************************************************************)
RECURSIVE Ascending(_)
Ascending(S) ==
  IF S = {} THEN <<>>
  ELSE LET m == CHOOSE x \in S : \A y \in S : x <= y
       IN  <<m>> \o Ascending(S \ {m})

\* the places are listed in the order other, own, empty
recompute_order_OtherFirst(bp, t, shipment_id) ==
  LET open(p) == t >= bp[p].cleaning_until /\ remaining_capacity(bp[p]) > 0
      empty == {p \in Places : open(p) /\ bp[p].occupied = 0}
      own == {p \in Places : open(p) /\ shipment_id \in DOMAIN bp[p].occupants}
      other == {p \in Places : open(p) /\ bp[p].occupied > 0
                               /\ shipment_id \notin DOMAIN bp[p].occupants}
  IN  Ascending(other) \o Ascending(own) \o Ascending(empty)

\* recompute_order at time t for shipment_id: empty, then own, then other places
recompute_order(bp, t, shipment_id) ==
  LET open(p) == t >= bp[p].cleaning_until /\ remaining_capacity(bp[p]) > 0
      empty == {p \in Places : open(p) /\ bp[p].occupied = 0}
      own == {p \in Places : open(p) /\ shipment_id \in DOMAIN bp[p].occupants}
      other == {p \in Places : open(p) /\ bp[p].occupied > 0
                               /\ shipment_id \notin DOMAIN bp[p].occupants}
  IN  Ascending(empty) \o Ascending(own) \o Ascending(other)

\* the place is found whatever its cleaning window
find_specific_place_NoClean(bp, t, place_id) ==
  IF place_id \in Places THEN place_id ELSE 0

\* _find_specific_place at time t: the place, or 0 for None
find_specific_place(bp, t, place_id) ==
  IF place_id \in Places /\ t >= bp[place_id].cleaning_until THEN place_id ELSE 0

\* the time the allocator looks again: timeout(0.5)
PollAt(t) == t + PollInterval

\* the top of `while remaining > 0` and, after it, the first step of the apply loop:
\* what the process waits for next
PlanLoop(sh, lk, q, t, p) ==
  IF sh.remaining > 0
  THEN IF sh.idx >= Len(sh.ordered_ids)
       THEN [sh |-> [sh EXCEPT !.pc = "poll"], lk |-> lk, fin |-> FALSE,
             q |-> Schedule(q, Event(PollAt(t), NORMAL, "resume", p))]
       ELSE LET r == LockRequest(lk, q, t, p)
            IN  [sh |-> [sh EXCEPT !.pc = "plan_lock", !.idx = @ + 1,
                                   !.candidate_id = sh.ordered_ids[sh.idx + 1]],
                 lk |-> r.lk, q |-> r.q, fin |-> FALSE]
  ELSE IF sh.plan /= <<>>
       THEN LET r == LockRequest(lk, q, t, p)
            IN  [sh |-> [sh EXCEPT !.pc = "apply_lock", !.applying = 1],
                 lk |-> r.lk, q |-> r.q, fin |-> FALSE]
       ELSE [sh |-> sh, lk |-> lk, q |-> q, fin |-> TRUE]

\* the top of `while remaining_chicks > 0`: the next truck asks for a truck unit
TruckLoop(sh, tr, q, t, p) ==
  IF sh.remaining_chicks > 0
  THEN LET load == Min(chicks_per_truck, sh.remaining_chicks)
           r == ContainerGet(tr, p)
       IN  [sh |-> [sh EXCEPT !.pc = "truck_get", !.truck_counter = @ + 1,
                              !.load = load, !.remaining_chicks = @ - load],
            tr |-> r.tr, q |-> ScheduleAll(q, ResumeEvents(r.served, t))]
  ELSE [sh |-> [sh EXCEPT !.pc = "done", !.load = 0], tr |-> tr, q |-> q]

\* the next truck is started while the plan of this one is still pending
TruckDone_PlanPending(sh, tr, q, t, p) ==
  TruckLoop(sh, ContainerPut(tr), Schedule(q, Event(t, NORMAL, "trput", p)), t, p)

\* _place_truck has returned (its locals are gone): truck_slots.put(1), then the next
\* truck if any
TruckDone(sh, tr, q, t, p) ==
  LET done == [sh EXCEPT !.placed = Append(@, [load |-> sh.load, added |-> sh.added]),
                         !.plan = <<>>, !.remaining = 0, !.ordered_ids = <<>>, !.idx = 0,
                         !.candidate_id = 0, !.applying = 0, !.added = 0]
  IN  TruckLoop(done, ContainerPut(tr), Schedule(q, Event(t, NORMAL, "trput", p)), t, p)

(***************************************************************************)
(* _handle_shipment after the join.                                        *)
(***************************************************************************)
\* sorting and vaccination are over: the load-to-transport delay.  The cart results
\* and the totals other than total_chicks are not read again: they are dropped here.
Sorted ==
  /\ Runnable
  /\ ev.kind = "resume"
  /\ ev.p.k = "ship"
  /\ ship[ev.p.s].pc = "sort"
  /\ now' = ev.t
  /\ ship' = [ship EXCEPT ![ev.p.s].pc = "load", ![ev.p.s].total_discarded = 0,
                          ![ev.p.s].total_fertile = 0, ![ev.p.s].total_hatch_losses = 0]
  /\ cart' = [cart EXCEPT ![ev.p.s] = <<>>]
  /\ queue' = Schedule(rest, Event(ev.t + load_to_transport, NORMAL, "resume", ev.p))
  /\ UNCHANGED << cfg, call, flow, gen, pre_hatch_slots, hatch_slots, truck_slots, barn_lock,
                  barn_places, preferred, cycles, slaughter_records >>

\* trucks_needed, and the first truck asks for a truck unit
Loaded ==
  /\ Runnable
  /\ ev.kind = "resume"
  /\ ev.p.k = "ship"
  /\ ship[ev.p.s].pc = "load"
  /\ now' = ev.t
  /\ LET s == ev.p.s
         sh == [ship[s] EXCEPT
                  !.trucks_needed = Max(1, Ceil(ship[s].total_chicks, chicks_per_truck)),
                  !.remaining_chicks = ship[s].total_chicks]
     IN  \E r \in {TruckLoop(sh, truck_slots, rest, ev.t, ev.p)} :
           /\ ship' = [ship EXCEPT ![s] = r.sh]
           /\ truck_slots' = r.tr
           /\ queue' = r.q
  /\ UNCHANGED << cfg, call, flow, gen, cart, pre_hatch_slots, hatch_slots, barn_lock, barn_places,
                  preferred, cycles, slaughter_records >>

\* the truck unit is acquired: the transit delay
TruckAcquired ==
  /\ Runnable
  /\ ev.kind = "resume"
  /\ ev.p.k = "ship"
  /\ ship[ev.p.s].pc = "truck_get"
  /\ now' = ev.t
  /\ ship' = [ship EXCEPT ![ev.p.s].pc = "transit"]
  /\ queue' = Schedule(rest, Event(ev.t + transport_time_days, NORMAL, "resume", ev.p))
  /\ UNCHANGED << cfg, call, flow, gen, cart, pre_hatch_slots, hatch_slots, truck_slots, barn_lock,
                  barn_places, preferred, cycles, slaughter_records >>

\* the truck has arrived: _place_truck starts and computes its first order
TruckArrived ==
  /\ Runnable
  /\ ev.kind = "resume"
  /\ ev.p.k = "ship"
  /\ ship[ev.p.s].pc = "transit"
  /\ now' = ev.t
  /\ LET s == ev.p.s
         sh == [ship[s] EXCEPT !.plan = <<>>, !.remaining = ship[s].load,
                               !.ordered_ids = recompute_order(barn_places, ev.t, s),
                               !.idx = 0, !.candidate_id = 0, !.applying = 0,
                               !.added = 0]
     IN  \E r \in {PlanLoop(sh, barn_lock, rest, ev.t, ev.p)} :
           /\ ship' = [ship EXCEPT ![s] = r.sh]
           /\ barn_lock' = r.lk
           /\ queue' = r.q
  /\ UNCHANGED << cfg, call, flow, gen, cart, pre_hatch_slots, hatch_slots, truck_slots, barn_places,
                  preferred, cycles, slaughter_records >>

\* after timeout(0.5): the order is recomputed
PlacePolled ==
  /\ Runnable
  /\ ev.kind = "resume"
  /\ ev.p.k = "ship"
  /\ ship[ev.p.s].pc = "poll"
  /\ now' = ev.t
  /\ LET s == ev.p.s
         sh == [ship[s] EXCEPT !.ordered_ids = recompute_order(barn_places, ev.t, s),
                               !.idx = 0]
     IN  \E r \in {PlanLoop(sh, barn_lock, rest, ev.t, ev.p)} :
           /\ ship' = [ship EXCEPT ![s] = r.sh]
           /\ barn_lock' = r.lk
           /\ queue' = r.q
  /\ UNCHANGED << cfg, call, flow, gen, cart, pre_hatch_slots, hatch_slots, truck_slots, barn_places,
                  preferred, cycles, slaughter_records >>

\* the lock is held: the candidate is confirmed and a portion is added to the plan
PlacePlanned ==
  /\ Runnable
  /\ ev.kind = "resume"
  /\ ev.p.k = "ship"
  /\ ship[ev.p.s].pc = "plan_lock"
  /\ now' = ev.t
  /\ LET s == ev.p.s
         me == ship[s]
         confirmed == find_specific_place(barn_places, ev.t, me.candidate_id)
         portion == IF confirmed = 0 THEN 0
                    ELSE Min(remaining_capacity(barn_places[confirmed]), me.remaining)
         sh == IF portion <= 0 THEN me
               ELSE [me EXCEPT !.plan = Append(@, [place_id |-> confirmed,
                                                   amount |-> portion]),
                               !.remaining = @ - portion]
     IN  \E planned \in {sh}, rel \in {LockRelease(barn_lock, rest, ev.t, ev.p)} :
         \E r \in {PlanLoop(planned, rel.lk, rel.q, ev.t, ev.p)} :
           /\ ship' = [ship EXCEPT ![s] = r.sh]
           /\ barn_lock' = r.lk
           /\ queue' = r.q
  /\ UNCHANGED << cfg, call, flow, gen, cart, pre_hatch_slots, hatch_slots, truck_slots, barn_places,
                  preferred, cycles, slaughter_records >>

\* the sub-process of section 4.4, started for an amount that was placed
SpawnFarmCycle(cs, q, t, shipment_id, amount, place_id) ==
  [cs |-> Append(cs, [pc |-> "init", shipment_id |-> shipment_id, amount |-> amount,
                      place_id |-> place_id]),
   q |-> Schedule(q, Event(t, URGENT, "init", FarmProc(Len(cs) + 1)))]

\* the lock is held: one entry of the plan is applied (or skipped when the place is
\* not found), then the next entry, or the truck unit is returned
PlaceApplied(grow) ==
  /\ Runnable
  /\ ev.kind = "resume"
  /\ ev.p.k = "ship"
  /\ ship[ev.p.s].pc = "apply_lock"
  /\ now' = ev.t
  /\ LET s == ev.p.s
         me == ship[s]
         entry == me.plan[me.applying]
         confirmed_place == find_specific_place(barn_places, ev.t, entry.place_id)
         did == confirmed_place /= 0
         sh == IF did THEN [me EXCEPT !.added = @ + entry.amount] ELSE me
     IN  \E rel \in {LockRelease(barn_lock, rest, ev.t, ev.p)} :
         \E sp \in {IF did /\ grow
                    THEN SpawnFarmCycle(cycles, rel.q, ev.t, s, entry.amount,
                                        confirmed_place)
                    ELSE [cs |-> cycles, q |-> rel.q]} :
           /\ barn_places' = IF did
                             THEN [barn_places EXCEPT
                                     ![confirmed_place] = add(@, s, entry.amount)]
                             ELSE barn_places
           /\ cycles' = sp.cs
           /\ IF me.applying < Len(me.plan)
              THEN \E r \in {LockRequest(rel.lk, sp.q, ev.t, ev.p)} :
                     /\ ship' = [ship EXCEPT ![s] = [sh EXCEPT !.applying = @ + 1]]
                     /\ barn_lock' = r.lk
                     /\ queue' = r.q
                     /\ UNCHANGED truck_slots
              ELSE \E applied \in {sh} :
                   \E r \in {TruckDone(applied, truck_slots, sp.q, ev.t, ev.p)} :
                     /\ ship' = [ship EXCEPT ![s] = r.sh]
                     /\ barn_lock' = rel.lk
                     /\ truck_slots' = r.tr
                     /\ queue' = r.q
  /\ UNCHANGED << cfg, call, flow, gen, cart, pre_hatch_slots, hatch_slots, preferred, slaughter_records >>

\* the Release event of barn_lock: the next waiting request is granted
LockReleased ==
  /\ Runnable
  /\ ev.kind = "release"
  /\ now' = ev.t
  /\ LET r == LockTriggerPut(barn_lock, rest, ev.t)
     IN  /\ barn_lock' = r.lk
         /\ queue' = r.q
  /\ UNCHANGED << cfg, call, flow, gen, ship, cart, pre_hatch_slots, hatch_slots, truck_slots,
                  barn_places, preferred, cycles, slaughter_records >>

\* the put event of truck_slots: waiting get(1) requests are served
TruckReturned ==
  /\ Runnable
  /\ ev.kind = "trput"
  /\ now' = ev.t
  /\ LET r == ContainerTriggerGet(truck_slots, <<>>)
     IN  /\ truck_slots' = r.tr
         /\ queue' = ScheduleAll(rest, ResumeEvents(r.served, ev.t))
  /\ UNCHANGED << cfg, call, flow, gen, ship, cart, pre_hatch_slots, hatch_slots, barn_lock,
                  barn_places, preferred, cycles, slaughter_records >>

(***************************************************************************)
(* _manage_farm_cycle.                                                     *)
(***************************************************************************)
\* the grow-out duration is sampled
FarmCycleStart ==
  /\ Runnable
  /\ ev.kind = "init"
  /\ ev.p.k = "farm"
  /\ now' = ev.t
  /\ \E grow_out_time \in grow_out_lo .. grow_out_hi :
       queue' = Schedule(rest, Event(ev.t + grow_out_time, NORMAL, "resume", ev.p))
  /\ cycles' = [cycles EXCEPT ![ev.p.s].pc = "growing"]
  /\ UNCHANGED << cfg, call, flow, gen, ship, cart, pre_hatch_slots, hatch_slots, truck_slots,
                  barn_lock, barn_places, preferred, slaughter_records >>

\* a window opens after every removal
LeftEmpty_Always(place) == TRUE

\* the test that opens a cleaning window after the removal
LeftEmpty(place) == place.occupied = 0

\* grow-out is over: survivors, the SlaughterRecord, the decrement, and the cleaning
\* window when the place is left empty
FarmCycleSlaughter ==
  /\ Runnable
  /\ ev.kind = "resume"
  /\ ev.p.k = "farm"
  /\ cycles[ev.p.s].pc = "growing"
  /\ now' = ev.t
  /\ \E survival_rate \in Rates :
       LET c == cycles[ev.p.s]
           survivors == Yield(c.amount, survival_rate)
           place == decrement(barn_places[c.place_id], c.shipment_id, c.amount)
       IN  /\ slaughter_records' = Append(slaughter_records,
                 [day |-> ev.t, shipment_id |-> c.shipment_id, quantity |-> survivors,
                  losses |-> c.amount - survivors, place_id |-> c.place_id,
                  removed |-> removal(barn_places[c.place_id], c.shipment_id, c.amount)])
           /\ IF LeftEmpty(place)
              THEN /\ barn_places' = [barn_places EXCEPT ![c.place_id] =
                                        [place EXCEPT !.cleaning_until = ev.t + cleaning_days]]
                   /\ cycles' = [cycles EXCEPT ![ev.p.s].pc = "cleaning"]
                   /\ queue' = Schedule(rest, Event(ev.t + cleaning_days, NORMAL,
                                                    "resume", ev.p))
              ELSE /\ barn_places' = [barn_places EXCEPT ![c.place_id] = place]
                   /\ cycles' = [cycles EXCEPT ![ev.p.s].pc = "done"]
                   /\ queue' = rest
  /\ UNCHANGED << cfg, call, flow, gen, ship, cart, pre_hatch_slots, hatch_slots, truck_slots,
                  barn_lock, preferred >>

\* the cleaning window has elapsed
FarmCycleCleaned ==
  /\ Runnable
  /\ ev.kind = "resume"
  /\ ev.p.k = "farm"
  /\ cycles[ev.p.s].pc = "cleaning"
  /\ now' = ev.t
  /\ barn_places' = [barn_places EXCEPT ![cycles[ev.p.s].place_id].cleaning_until = 0]
  /\ cycles' = [cycles EXCEPT ![ev.p.s].pc = "done"]
  /\ queue' = rest
  /\ UNCHANGED << cfg, call, flow, gen, ship, cart, pre_hatch_slots, hatch_slots, truck_slots,
                  barn_lock, preferred, slaughter_records >>

(***************************************************************************)
(* The specifications.                                                     *)
(***************************************************************************)
Hatchery ==
  \/ GenerateDay
  \/ GenerateNext
  \/ HandleShipment
  \/ CartStart
  \/ CartSetterAcquired
  \/ CartSetterPut
  \/ CartScreen
  \/ CartHatcherAcquired
  \/ CartHatch
  \/ CartReturn
  \/ CartJoined
  \/ Aggregate

Transport ==
  \/ Sorted
  \/ Loaded
  \/ TruckAcquired
  \/ TruckArrived
  \/ PlacePolled
  \/ PlacePlanned
  \/ LockReleased
  \/ TruckReturned

\* the program as it is: _place_truck starts no grow-out process
Next == Hatchery \/ Transport \/ PlaceApplied(FALSE)

Spec == Init /\ [][Next]_vars

\* the program with the grow-out process of section 4.4 started on every placement
NextFarm ==
  \/ Hatchery
  \/ Transport
  \/ PlaceApplied(TRUE)
  \/ FarmCycleStart
  \/ FarmCycleSlaughter
  \/ FarmCycleCleaned

SpecFarm == Init /\ [][NextFarm]_vars

(***************************************************************************)
(* Observations used by the properties.                                    *)
(***************************************************************************)
\* shipment s is inside _place_truck
InPlaceTruck(s) == ship[s].pc \in {"poll", "plan_lock", "apply_lock"}

\* the entries of s's plan that are not applied yet
Unapplied(s) ==
  IF ~InPlaceTruck(s) THEN {}
  ELSE {k \in 1 .. Len(ship[s].plan) : k >= ship[s].applying}

RECURSIVE SumAmounts(_, _)
SumAmounts(plan, ks) ==
  IF ks = {} THEN 0
  ELSE LET k == CHOOSE x \in ks : TRUE
       IN  plan[k].amount + SumAmounts(plan, ks \ {k})

\* what s's truck has planned for place p and not yet added
Pending(s, p) ==
  SumAmounts(ship[s].plan, {k \in Unapplied(s) : ship[s].plan[k].place_id = p})

(***************************************************************************)
(* C1: in every reachable state, for every barn place, the sum of its      *)
(* occupant quantities and its occupied counter are at most its capacity.  *)
(***************************************************************************)
C1_OccupancyWithinCapacity ==
  \A p \in Places :
    /\ SumOccupants(barn_places[p].occupants) <= barn_places[p].capacity
    /\ barn_places[p].occupied <= barn_places[p].capacity

(***************************************************************************)
(* C2: for every completed _place_truck call, the amounts added to barn    *)
(* places for that truck sum to the truck's load exactly.                  *)
(***************************************************************************)
C2_LoadPlacedExactly ==
  \A s \in Shipments :
    \A k \in 1 .. Len(ship[s].placed) : ship[s].placed[k].added = ship[s].placed[k].load

(***************************************************************************)
(* C3: free capacity of a place that one truck has put in its plan is not  *)
(* also planned by another truck: the amounts two trucks have planned for  *)
(* one place and not yet added never exceed together the place's free      *)
(* capacity.                                                               *)
(***************************************************************************)
C3_PlansDoNotOverlap ==
  \A s1, s2 \in Shipments : \A p \in Places :
    (s1 /= s2 /\ Pending(s1, p) > 0 /\ Pending(s2, p) > 0)
      => Pending(s1, p) + Pending(s2, p) <= remaining_capacity(barn_places[p])

(***************************************************************************)
(* Leases of the slot stores: a cart holds a slot from the moment its get  *)
(* succeeds until it puts the slot back.                                   *)
(***************************************************************************)
Carts == {c \in Shipments \X (1 .. MaxEggs) : c[2] <= Len(cart[c[1]])}

SetterLeases(slot) ==
  {c \in Carts : /\ cart[c[1]][c[2]].pc \in {"setter_get", "setter_hold"}
                 /\ cart[c[1]][c[2]].slot_id = slot}

HatcherLeases(slot) ==
  {c \in Carts : /\ cart[c[1]][c[2]].pc \in {"hatcher_get", "hatcher_hold"}
                 /\ cart[c[1]][c[2]].hatch_slot_id = slot}

\* how many times slot is among the free items of a store
FreeCount(store, slot) == Cardinality({j \in 1 .. Len(store.items) : store.items[j] = slot})

SlotIds(sq) == {sq[j] : j \in 1 .. Len(sq)}

SetterSlotIds == SlotIds(MachineSlots(pre_hatch_machines, pre_hatch_carts_per_machine))
HatcherSlotIds == SlotIds(MachineSlots(hatch_machines, hatch_carts_per_machine))

(***************************************************************************)
(* C4: for the setter pool and the hatcher pool, the leased slots are at   *)
(* most the configured capacity, and every slot id is either free in the   *)
(* store or leased to exactly one cart, never both and never to two carts. *)
(***************************************************************************)
C4_SlotsFreeOrLeasedOnce ==
  /\ \A slot \in SetterSlotIds :
       FreeCount(pre_hatch_slots, slot) + Cardinality(SetterLeases(slot)) = 1
  /\ \A slot \in HatcherSlotIds :
       FreeCount(hatch_slots, slot) + Cardinality(HatcherLeases(slot)) = 1
  /\ SlotIds(pre_hatch_slots.items) \subseteq SetterSlotIds
  /\ SlotIds(hatch_slots.items) \subseteq HatcherSlotIds
  /\ Cardinality(UNION {SetterLeases(slot) : slot \in SetterSlotIds}) <= total_pre_hatch_slots
  /\ Cardinality(UNION {HatcherLeases(slot) : slot \in HatcherSlotIds}) <= total_hatch_slots
  /\ \A c \in Carts :
       /\ cart[c[1]][c[2]].pc = "setter_hold" => cart[c[1]][c[2]].slot_id \in SetterSlotIds
       /\ cart[c[1]][c[2]].pc = "hatcher_hold"
            => cart[c[1]][c[2]].hatch_slot_id \in HatcherSlotIds

\* every setter slot is leased and a cart waits for one
C4_PoolExhausted ==
  /\ pre_hatch_slots.items = <<>>
  /\ pre_hatch_slots.getq /= <<>>
  /\ \A slot \in SetterSlotIds : Cardinality(SetterLeases(slot)) = 1

(***************************************************************************)
(* C5: the truck pool level stays within 0 .. active_trucks, and the       *)
(* trucks that hold a unit (acquired, not yet returned) are exactly        *)
(* active_trucks - level.                                                  *)
(***************************************************************************)
TruckWaiting(s) == \E k \in 1 .. Len(truck_slots.getq) : truck_slots.getq[k] = ShipProc(s)

TruckHolders ==
  {s \in Shipments :
     \/ ship[s].pc \in {"transit", "poll", "plan_lock", "apply_lock"}
     \/ ship[s].pc = "truck_get" /\ ~TruckWaiting(s)}

C5_TruckUnitsAccounted ==
  /\ truck_slots.level >= 0
  /\ truck_slots.level <= active_trucks
  /\ Cardinality(TruckHolders) = active_trucks - truck_slots.level

\* a truck has returned its unit and every unit is out again
C5_AllTrucksOut ==
  /\ truck_slots.level = 0
  /\ \E s \in Shipments : ship[s].placed /= <<>>

(***************************************************************************)
(* C6: for every cart and any sampled rates, fertile + discarded = eggs    *)
(* and chicks + hatch_losses = fertile with 0 <= chicks <= fertile <= eggs;*)
(* the totals aggregated after the join satisfy the same equalities with   *)
(* eggs the shipment's egg quantity.                                       *)
(***************************************************************************)
Screened == {"hatcher_get", "hatcher_hold", "hatcher_put", "done"}
Hatched == {"hatcher_put", "done"}

C6_EggsConserved ==
  /\ \A c \in Carts :
       LET me == cart[c[1]][c[2]]
       IN  /\ me.pc \in Screened =>
                /\ me.fertile + me.discarded = me.eggs
                /\ 0 <= me.fertile /\ me.fertile <= me.eggs
           /\ me.pc \in Hatched =>
                /\ me.chicks + me.hatch_losses = me.fertile
                /\ 0 <= me.chicks /\ me.chicks <= me.fertile
  /\ \A s \in Shipments :
       (ship[s].pc \in {"sort", "empty"} /\ ship[s].ncarts > 0) =>
         /\ ship[s].total_fertile + ship[s].total_discarded = cfg.shipment_eggs
         /\ ship[s].total_chicks + ship[s].total_hatch_losses = ship[s].total_fertile
         /\ 0 <= ship[s].total_chicks
         /\ ship[s].total_chicks <= ship[s].total_fertile
         /\ ship[s].total_fertile <= cfg.shipment_eggs

\* a shipment aggregated with eggs discarded, eggs lost in hatching and chicks hatched
C6_LossesAtBothStages ==
  \E s \in Shipments :
    /\ ship[s].pc = "sort"
    /\ ship[s].total_discarded > 0
    /\ ship[s].total_hatch_losses > 0
    /\ ship[s].total_chicks > 0

(***************************************************************************)
(* C7: no barn place gains occupancy at a time earlier than its            *)
(* cleaning_until, also when it was planned before the cleaning window     *)
(* opened; and a cleaning window starts only on an empty place.            *)
(***************************************************************************)
GainsOccupancy(p) ==
  \/ barn_places'[p].occupied > barn_places[p].occupied
  \/ \E s \in DOMAIN barn_places'[p].occupants :
       Get(barn_places'[p].occupants, s) > Get(barn_places[p].occupants, s)

WindowStarts(p) ==
  /\ barn_places'[p].cleaning_until /= barn_places[p].cleaning_until
  /\ barn_places'[p].cleaning_until > 0

C7_NoIntakeWhileCleaning ==
  [][\A p \in Places :
       /\ GainsOccupancy(p) =>
            /\ now' >= barn_places[p].cleaning_until
            /\ now' >= barn_places'[p].cleaning_until
       /\ WindowStarts(p) =>
            /\ barn_places'[p].occupied = 0
            /\ barn_places'[p].occupants = NoOccupants
            /\ barn_places'[p].cleaning_until = now' + cleaning_days]_vars

\* a truck is about to apply an entry of its plan to a place that is being cleaned
C7_PlannedPlaceInCleaning ==
  \E s \in Shipments : \E p \in Places :
    /\ ship[s].pc = "apply_lock"
    /\ ship[s].plan[ship[s].applying].place_id = p
    /\ barn_lock.users = <<ShipProc(s)>>
    /\ now < barn_places[p].cleaning_until

(***************************************************************************)
(* C8: every amount placed into a barn place starts a grow-out process for *)
(* that place, shipment and amount: what a place holds of a shipment is    *)
(* what the grow-out processes still growing there have yet to remove.     *)
(***************************************************************************)
RECURSIVE Growing(_, _, _)
Growing(cs, p, s) ==
  IF cs = <<>> THEN 0
  ELSE (IF Head(cs).place_id = p /\ Head(cs).shipment_id = s
           /\ Head(cs).pc \in {"init", "growing"}
        THEN Head(cs).amount ELSE 0) + Growing(Tail(cs), p, s)

C8_PlacementStartsGrowOut ==
  \A p \in Places : \A s \in Shipments :
    Get(barn_places[p].occupants, s) = Growing(cycles, p, s)

(***************************************************************************)
(* The arrival of shipments for every egg quantity and cart size within    *)
(* the bounds: the generator and the split of _handle_shipment.            *)
(***************************************************************************)
InitSplit ==
  /\ cfg \in [shipment_eggs : 0 .. MaxEggs, pre_hatch_cart_eggs : 1 .. MaxCartEggs,
              hatch_days_range : {<<hatch_days_lo, hatch_days_hi>>},
              pre_hatch_machines : {pre_hatch_machines}, pre_hatch_days : {pre_hatch_days}]
  /\ Started

NextSplit == GenerateDay \/ GenerateNext \/ HandleShipment

SpecSplit == InitSplit /\ [][NextSplit]_vars

\* the cart processes of shipment s that are started and have not run yet
CartInitEvents(s, i) ==
  {k \in 1 .. Len(queue) : queue[k] = Event(now, URGENT, "init", CartProc(s, i))}

(***************************************************************************)
(* C9: on arrival a shipment of E eggs with cart size C > 0 is split into  *)
(* exactly ceil(E / C) carts; every cart but the last holds C eggs, the    *)
(* last holds between 1 and C eggs, the cart eggs sum to E, and exactly    *)
(* one cart process is started per cart.                                   *)
(***************************************************************************)
C9_SplitIntoCarts ==
  \A s \in Shipments :
    ship[s].pc \in {"join", "empty"} =>
      LET E == cfg.shipment_eggs
          C == cfg.pre_hatch_cart_eggs
          n == Len(cart[s])
      IN  /\ n = Ceil(E, C)
          /\ ship[s].ncarts = n
          /\ \A i \in 1 .. n : cart[s][i].eggs = IF i < n THEN C ELSE E - C * (n - 1)
          /\ n > 0 => cart[s][n].eggs >= 1 /\ cart[s][n].eggs <= C
          /\ SumField(cart[s], "eggs") = E
          /\ \A i \in 1 .. n : cart[s][i].pc = "init" => Cardinality(CartInitEvents(s, i)) = 1
          /\ \A k \in 1 .. Len(queue) :
               (queue[k].p.k = "cart" /\ queue[k].p.s = s) => queue[k].p.i \in 1 .. n

\* ten eggs in carts of two give five carts, and a last cart smaller than the others occurs
C9_FiveCarts ==
  \E s \in Shipments :
    /\ ship[s].pc = "join"
    /\ cfg.shipment_eggs = 10
    /\ cfg.pre_hatch_cart_eggs = 2
    /\ Len(cart[s]) = 5
    /\ \A i \in 1 .. 5 : Cardinality(CartInitEvents(s, i)) = 1

(***************************************************************************)
(* The hatchery up to the loading of the first truck, with hatch times     *)
(* that differ from cart to cart (the whole hatch_days_range).             *)
(***************************************************************************)
InitJoin ==
  /\ cfg = [shipment_eggs |-> shipment_eggs, pre_hatch_cart_eggs |-> pre_hatch_cart_eggs,
            hatch_days_range |-> <<hatch_days_lo, hatch_days_hi>>,
            pre_hatch_machines |-> pre_hatch_machines, pre_hatch_days |-> pre_hatch_days]
  /\ Started

NextJoin == Hatchery \/ Sorted \/ Loaded

SpecJoin == InitJoin /\ [][NextJoin]_vars

(***************************************************************************)
(* C10: a shipment stays suspended until every one of its cart processes   *)
(* has completed: the totals and every later stage come only after the     *)
(* last cart has put back its hatcher slot, and the totals are the sums    *)
(* over all carts.                                                         *)
(***************************************************************************)
AfterJoin == {"sort", "empty"}

C10_JoinWaitsForAllCarts ==
  \A s \in Shipments :
    /\ ship[s].pc \notin {"none", "init", "join"} => ship[s].joined = ship[s].ncarts
    /\ ship[s].pc \in AfterJoin =>
         /\ Len(cart[s]) = ship[s].ncarts
         /\ \A i \in 1 .. Len(cart[s]) :
              /\ cart[s][i].pc = "done"
              /\ cart[s][i].slot_id = NoSlot
              /\ cart[s][i].hatch_slot_id = NoSlot
         /\ ship[s].total_discarded = SumField(cart[s], "discarded")
         /\ ship[s].total_fertile = SumField(cart[s], "fertile")
         /\ ship[s].total_chicks = SumField(cart[s], "chicks")
         /\ ship[s].total_hatch_losses = SumField(cart[s], "hatch_losses")
    /\ ship[s].pc = "join" =>
         /\ ship[s].total_chicks = 0
         /\ (\E k \in 1 .. Len(queue) : queue[k].p = ShipProc(s)) =>
              /\ ship[s].joined = ship[s].ncarts
              /\ \A i \in 1 .. Len(cart[s]) : cart[s][i].pc = "done"
         /\ ship[s].joined =
              Cardinality({i \in 1 .. Len(cart[s]) : cart[s][i].pc = "done"})
              - Cardinality({k \in 1 .. Len(queue) :
                               queue[k].kind = "end" /\ queue[k].p.s = s})

\* one cart has completed, another has not, and the shipment is still suspended
C10_SuspendedOnLastCart ==
  \E s \in Shipments :
    /\ ship[s].pc = "join"
    /\ ship[s].joined >= 1
    /\ ship[s].joined < ship[s].ncarts
    /\ \E i \in 1 .. Len(cart[s]) : cart[s][i].pc \in {"hatcher_get", "hatcher_hold"}

(***************************************************************************)
(* C11: a shipment whose aggregated chick count is zero after the join is  *)
(* in its terminal state "empty": it took no truck, it waits for none, it  *)
(* has no event left to run, nothing is planned or placed for it and no    *)
(* barn place records it as an occupant.                                   *)
(***************************************************************************)
ShipmentEvents(s) == {k \in 1 .. Len(queue) : queue[k].p = ShipProc(s)}

C11_EmptyShipmentEndsWithoutTruck ==
  \A s \in Shipments :
    /\ (ship[s].pc \notin {"none", "init", "join"} /\ ship[s].total_chicks = 0)
         => ship[s].pc = "empty"
    /\ ship[s].pc = "empty" =>
         /\ ship[s].total_chicks = 0
         /\ ship[s].truck_counter = 0
         /\ ship[s].trucks_needed = 0
         /\ ~TruckWaiting(s)
         /\ s \notin TruckHolders
         /\ ShipmentEvents(s) = {}
         /\ ship[s].plan = <<>>
         /\ ship[s].placed = <<>>
         /\ \A p \in Places : Get(barn_places[p].occupants, s) = 0

\* a shipment ended empty after its carts were joined, while a barn place is occupied
C11_EmptyShipmentBesidePlacement ==
  \E s \in Shipments :
    /\ ship[s].pc = "empty"
    /\ ship[s].ncarts > 0
    /\ ship[s].joined = ship[s].ncarts
    /\ \E p \in Places : barn_places[p].occupied > 0

(***************************************************************************)
(* C12: every truck-pool unit that is out of the pool belongs to a truck   *)
(* that was granted capacity or is in transit: a shipment whose truck is   *)
(* in _place_truck (polling, planning or applying) holds no unit.          *)
(***************************************************************************)
InTransit == {s \in Shipments : \/ ship[s].pc = "transit"
                                \/ ship[s].pc = "truck_get" /\ ~TruckWaiting(s)}

C12_PlacementHoldsNoTruck ==
  truck_slots.level + Cardinality(InTransit) = active_trucks

(***************************************************************************)
(* C13: for a shipment with chicks, the trucks count of the                *)
(* transport_loading record is ceil(total_chicks / chicks_per_truck), the  *)
(* trucks dispatched never exceed it and equal it once the truck loop is   *)
(* over, every load is between 1 and chicks_per_truck, and the loads sum   *)
(* to total_chicks.                                                        *)
(***************************************************************************)
Dispatching == {"truck_get", "transit", "poll", "plan_lock", "apply_lock", "done"}

RECURSIVE SumLoads(_)
SumLoads(trucks) == IF trucks = <<>> THEN 0 ELSE Head(trucks).load + SumLoads(Tail(trucks))

C13_TrucksAndLoads ==
  \A s \in Shipments :
    ship[s].pc \in Dispatching =>
      LET sh == ship[s]
          n == sh.trucks_needed
      IN  /\ sh.total_chicks > 0
          /\ (n - 1) * chicks_per_truck < sh.total_chicks
          /\ sh.total_chicks <= n * chicks_per_truck
          /\ sh.truck_counter <= n
          /\ sh.remaining_chicks >= 0
          /\ (sh.truck_counter = n) <=> (sh.remaining_chicks = 0)
          /\ \A k \in 1 .. Len(sh.placed) : sh.placed[k].load \in 1 .. chicks_per_truck
          /\ SumLoads(sh.placed) + sh.load + sh.remaining_chicks = sh.total_chicks
          /\ IF sh.pc = "done"
             THEN Len(sh.placed) = n /\ sh.load = 0
             ELSE Len(sh.placed) = sh.truck_counter - 1 /\ sh.load \in 1 .. chicks_per_truck

\* a shipment's truck loop is over after two trucks, a full one and a partial one
C13_TwoTrucksDelivered ==
  \E s \in Shipments :
    /\ ship[s].pc = "done"
    /\ ship[s].trucks_needed = 2
    /\ ship[s].truck_counter = 2
    /\ ship[s].placed[1].load = chicks_per_truck
    /\ ship[s].placed[2].load < chicks_per_truck

(***************************************************************************)
(* C14: a shipment asks for truck capacity for its first truck after the   *)
(* load-to-transport delay and for truck k+1 only in the step in which     *)
(* truck k, after its transit, has had the last entry of its plan applied; *)
(* a shipment has at most one request waiting and none while a truck of    *)
(* its own is under way.  Trucks of different shipments are in transit     *)
(* together, never more of them than the pool has units.                   *)
(***************************************************************************)
Requests(s) == {k \in 1 .. Len(truck_slots.getq) : truck_slots.getq[k] = ShipProc(s)}

TrucksInTransit == {s \in Shipments : ship[s].pc = "transit"}

C14_NextTruckAfterPlacement ==
  [][\A s \in Shipments :
       /\ ship'[s].truck_counter /= ship[s].truck_counter =>
            /\ ship'[s].truck_counter = ship[s].truck_counter + 1
            /\ ship'[s].pc = "truck_get"
            /\ \/ ship[s].pc = "load" /\ ship[s].truck_counter = 0
               \/ /\ ship[s].pc = "apply_lock"
                  /\ ship[s].applying = Len(ship[s].plan)
                  /\ ship[s].remaining = 0
                  /\ Len(ship'[s].placed) = ship[s].truck_counter
                  /\ ship'[s].plan = <<>>
       /\ Cardinality(Requests(s)') <= 1
       /\ Requests(s)' /= {} => ship'[s].pc = "truck_get"
       /\ Cardinality(TrucksInTransit') <= active_trucks
    ]_vars

\* the trucks of two shipments are in transit at the same time, one of them a second truck
C14_TwoShipmentsInTransit ==
  \E s1, s2 \in Shipments :
    /\ s1 /= s2
    /\ ship[s1].pc = "transit"
    /\ ship[s2].pc = "transit"
    /\ ship[s1].truck_counter = 2

(***************************************************************************)
(* C15: a grow-out removal that leaves a barn place with zero occupancy    *)
(* opens a cleaning window: an empty place that is out of cleaning had no  *)
(* removal at the current time, and a place in cleaning is empty, had a    *)
(* removal cleaning_days before cleaning_until, is not found by            *)
(* _find_specific_place and is in no planning order of a truck that is     *)
(* being placed.  A place whose window has elapsed is found again and,     *)
(* with free capacity, is in these planning orders.  A removal that leaves *)
(* other shipments resident opens no window: an occupied place is out of   *)
(* cleaning.                                                               *)
(***************************************************************************)
\* the removals from place p at time t
RemovalsAt(p, t) ==
  {k \in 1 .. Len(slaughter_records) :
     slaughter_records[k].place_id = p /\ slaughter_records[k].day = t}

InOrder(order, p) == \E k \in 1 .. Len(order) : order[k] = p

C15_CleaningWindow ==
  /\ \A p \in Places :
       LET place == barn_places[p]
       IN  IF place.cleaning_until > now
           THEN /\ place.occupied = 0
                /\ place.occupants = NoOccupants
                /\ RemovalsAt(p, place.cleaning_until - cleaning_days) /= {}
                /\ find_specific_place(barn_places, now, p) = 0
           ELSE /\ find_specific_place(barn_places, now, p) = p
                /\ place.occupied = 0 => RemovalsAt(p, now) = {}
  /\ \A s \in Shipments :
       InPlaceTruck(s) =>
         LET order == recompute_order(barn_places, now, s)
         IN  \A p \in Places :
               InOrder(order, p) <=> /\ barn_places[p].cleaning_until <= now
                                     /\ remaining_capacity(barn_places[p]) > 0

\* a removal has just left other residents and free capacity in one place while the
\* cleaning window of another place is open
C15_PartialReleaseBesideWindow ==
  /\ slaughter_records /= <<>>
  /\ LET rec == slaughter_records[Len(slaughter_records)]
     IN  /\ rec.day = now
         /\ rec.removed > 0
         /\ barn_places[rec.place_id].occupied > 0
         /\ barn_places[rec.place_id].cleaning_until = 0
         /\ remaining_capacity(barn_places[rec.place_id]) > 0
  /\ \E p \in Places : barn_places[p].cleaning_until > now

(***************************************************************************)
(* BarnPlace.add and BarnPlace.decrement called on their own, on a place   *)
(* with every mix of occupants.                                            *)
(***************************************************************************)
\* the occupant mappings: some shipments, each with a positive quantity
Mixes == UNION {[S -> 1 .. MaxAmount] : S \in SUBSET Shipments}

\* the place the methods are called on; the other places stay as constructed
Called == 1

InitPlace ==
  /\ cfg = [shipment_eggs |-> shipment_eggs, pre_hatch_cart_eggs |-> pre_hatch_cart_eggs,
            hatch_days_range |-> <<hatch_days_lo, hatch_days_lo>>,
            pre_hatch_machines |-> pre_hatch_machines, pre_hatch_days |-> pre_hatch_days]
  /\ Constructed
  /\ \E mix \in Mixes :
       barn_places = [p \in Places |->
         [capacity |-> Capacity[p], occupants |-> IF p = Called THEN mix ELSE NoOccupants,
          occupied |-> IF p = Called THEN SumOccupants(mix) ELSE 0, cleaning_until |-> 0]]

\* place.add(shipment_id, amount)
BarnAdd ==
  \E p \in {Called}, shipment_id \in Shipments, amount \in 1 .. MaxAmount :
    /\ barn_places[p].occupied + amount <= Capacity[p] + MaxAmount
    /\ barn_places' = [barn_places EXCEPT ![p] = add(@, shipment_id, amount)]
    /\ call' = [op |-> "add", place_id |-> p, shipment_id |-> shipment_id,
                amount |-> amount, ret |-> 0]
    /\ UNCHANGED << cfg, flow, now, queue, gen, ship, cart, pre_hatch_slots, hatch_slots,
                    truck_slots, barn_lock, preferred, cycles, slaughter_records >>

\* place.decrement(shipment_id, amount)
BarnDecrement ==
  \E p \in {Called}, shipment_id \in Shipments, amount \in 1 .. MaxAmount :
    /\ barn_places' = [barn_places EXCEPT ![p] = decrement(@, shipment_id, amount)]
    /\ call' = [op |-> "decrement", place_id |-> p, shipment_id |-> shipment_id,
                amount |-> amount, ret |-> removal(barn_places[p], shipment_id, amount)]
    /\ UNCHANGED << cfg, flow, now, queue, gen, ship, cart, pre_hatch_slots, hatch_slots,
                    truck_slots, barn_lock, preferred, cycles, slaughter_records >>

NextPlace == BarnAdd \/ BarnDecrement

SpecPlace == InitPlace /\ [][NextPlace]_vars

(***************************************************************************)
(* C16: add and decrement for one shipment id leave every other place and, *)
(* in the place they are called on, every other shipment's presence and    *)
(* quantity unchanged; after add the shipment is recorded with its former  *)
(* quantity plus the amount, beside the others; decrement for a shipment   *)
(* that is not resident changes nothing and returns 0, and for a resident  *)
(* one it returns and removes min(quantity, amount).                       *)
(***************************************************************************)
C16_OtherOccupantsUnchanged ==
  [][LET c == call'
         before == barn_places[c.place_id].occupants
         after == barn_places'[c.place_id].occupants
     IN  /\ \A q \in Places \ {c.place_id} : barn_places'[q] = barn_places[q]
         /\ \A x \in Shipments \ {c.shipment_id} :
              /\ x \in DOMAIN after <=> x \in DOMAIN before
              /\ x \in DOMAIN before => after[x] = before[x]
         /\ DOMAIN after \subseteq DOMAIN before \cup {c.shipment_id}
         /\ c.op = "add" =>
              /\ c.shipment_id \in DOMAIN after
              /\ after[c.shipment_id] = Get(before, c.shipment_id) + c.amount
         /\ (c.op = "decrement" /\ c.shipment_id \notin DOMAIN before) =>
              /\ barn_places' = barn_places
              /\ c.ret = 0
         /\ (c.op = "decrement" /\ c.shipment_id \in DOMAIN before) =>
              /\ c.ret = Min(before[c.shipment_id], c.amount)
              /\ Get(after, c.shipment_id) = before[c.shipment_id] - c.ret
    ]_<< call, barn_places >>

\* a shipment was added to a place where another one is resident with another quantity
C16_TwoShipmentsCoexist ==
  /\ call.op = "add"
  /\ \E x \in DOMAIN barn_places[call.place_id].occupants :
       /\ x /= call.shipment_id
       /\ barn_places[call.place_id].occupants[x]
            /= barn_places[call.place_id].occupants[call.shipment_id]
       /\ barn_places[call.place_id].occupants[call.shipment_id] = call.amount

(***************************************************************************)
(* A setter pool of a single slot.                                         *)
(***************************************************************************)
InitOneSlot ==
  /\ cfg = [shipment_eggs |-> shipment_eggs, pre_hatch_cart_eggs |-> pre_hatch_cart_eggs,
            hatch_days_range |-> <<hatch_days_lo, hatch_days_lo>>,
            pre_hatch_machines |-> 1, pre_hatch_days |-> pre_hatch_days]
  /\ Started

NextOneSlot == Hatchery

SpecOneSlot == InitOneSlot /\ [][NextOneSlot]_vars

(***************************************************************************)
(* C17: with a single setter slot, the slot is either in the pool or with  *)
(* exactly one cart, so a cart gets it only once the cart before has put   *)
(* it back; a put serves exactly one waiting request, the oldest, which    *)
(* receives the slot and one resume event; requests join the queue at its  *)
(* end.                                                                    *)
(***************************************************************************)
TheSlot == [m |-> 1, c |-> 1]

ResumesOf(q, p) == Cardinality({k \in 1 .. Len(q) : q[k].kind = "resume" /\ q[k].p = p})

C17_SingleSlotSerialises ==
  [][/\ Len(pre_hatch_slots'.items) + Cardinality(SetterLeases(TheSlot)') = 1
     /\ LET old == pre_hatch_slots.getq
            new == pre_hatch_slots'.getq
        IN  /\ \E served, asked \in 0 .. 1 :
                 /\ served <= Len(old)
                 /\ Len(new) = Len(old) - served + asked
                 /\ SubSeq(new, 1, Len(old) - served) = SubSeq(old, 1 + served, Len(old))
                 /\ asked = 1 => new[Len(new)].filter = 0
                 /\ served = 1 =>
                      LET p == Head(old).p
                      IN  /\ pre_hatch_slots.items = <<TheSlot>>
                          /\ pre_hatch_slots'.items = <<>>
                          /\ cart[p.s][p.i].slot_id = NoSlot
                          /\ cart'[p.s][p.i].slot_id = TheSlot
                          /\ cart'[p.s][p.i].pc = "setter_get"
                          /\ ResumesOf(queue, p) = 0
                          /\ ResumesOf(queue', p) = 1
            /\ \A k \in 1 .. Len(new) :
                 /\ cart'[new[k].p.s][new[k].p.i].slot_id = NoSlot
                 /\ cart'[new[k].p.s][new[k].p.i].pc = "setter_get"
                 /\ ResumesOf(queue', new[k].p) = 0
    ]_vars

\* the carts of the first shipment have put the slot back, a cart of the second
\* shipment has it and another cart waits
C17_SecondShipmentServed ==
  /\ \E c \in SetterLeases(TheSlot) : c[1] = 1 /\ cart[1][c[2]].pc = "setter_hold"
  /\ pre_hatch_slots.getq /= <<>>
  /\ ship[0].ncarts = 2
  /\ \A i \in 1 .. Len(cart[0]) : cart[0][i].pc \notin {"init", "setter_get", "setter_hold"}

(***************************************************************************)
(* Construction with a configuration that may be invalid.                  *)
(***************************************************************************)
\* nothing is constructed yet
Unbuilt ==
  /\ now = 0
  /\ queue = <<>>
  /\ gen = [pc |-> "new", today |-> 0, k |-> 0, shipment_counter |-> 0, parent_pairs |-> 1]
  /\ ship = [s \in Shipments |-> NoShipment]
  /\ cart = [s \in Shipments |-> <<>>]
  /\ pre_hatch_slots = [items |-> <<>>, getq |-> <<>>]
  /\ hatch_slots = [items |-> <<>>, getq |-> <<>>]
  /\ truck_slots = [level |-> 0, getq |-> <<>>]
  /\ barn_lock = [users |-> <<>>, putq |-> <<>>]
  /\ barn_places = [p \in Places |->
       [capacity |-> Capacity[p], occupants |-> NoOccupants, occupied |-> 0,
        cleaning_until |-> 0]]
  /\ preferred = [setter |-> [s \in Shipments |-> 0], hatcher |-> [s \in Shipments |-> 0]]
  /\ cycles = <<>>
  /\ slaughter_records = <<>>
  /\ call = NoCall
  /\ flow = NoFlow(cfg)

InitConfig ==
  /\ cfg \in [shipment_eggs : {shipment_eggs},
              pre_hatch_cart_eggs : {0, pre_hatch_cart_eggs},
              hatch_days_range : {<<hatch_days_lo, hatch_days_lo>>},
              pre_hatch_machines : {0, pre_hatch_machines},
              pre_hatch_days : {0, pre_hatch_days}]
  /\ Unbuilt

\* what raises in __init__: the divisions of derive_capacity (ZeroDivisionError) and the
\* capacity checks of simpy's Store and Container (ValueError when capacity <= 0)
Raises(c) ==
  \/ c.pre_hatch_cart_eggs = 0
  \/ c.shipment_eggs = 0
  \/ c.pre_hatch_machines * pre_hatch_carts_per_machine <= 0
  \/ total_hatch_slots <= 0
  \/ active_trucks <= 0

\* ChickSimulation(cfg, logger), then run() up to the start of the generator
Construct ==
  /\ gen.pc = "new"
  /\ IF Raises(cfg)
     THEN /\ gen' = [gen EXCEPT !.pc = "error"]
          /\ UNCHANGED << queue, pre_hatch_slots, hatch_slots, truck_slots >>
     ELSE /\ gen' = [gen EXCEPT !.pc = "init"]
          /\ queue' = << Event(0, URGENT, "init", GenProc) >>
          /\ pre_hatch_slots' =
               [items |-> MachineSlots(cfg.pre_hatch_machines, pre_hatch_carts_per_machine),
                getq |-> <<>>]
          /\ hatch_slots' =
               [items |-> MachineSlots(hatch_machines, hatch_carts_per_machine),
                getq |-> <<>>]
          /\ truck_slots' = [level |-> active_trucks, getq |-> <<>>]
  /\ UNCHANGED << cfg, call, flow, now, ship, cart, barn_lock, barn_places, preferred, cycles,
                  slaughter_records >>

NextConfig == Construct \/ Hatchery

SpecConfig == InitConfig /\ [][NextConfig]_vars

(***************************************************************************)
(* C18: with a cart size, pool size or stage duration that is zero or      *)
(* negative, construction fails: the simulation is never started, no       *)
(* simulated time passes and no shipment process starts.                   *)
(***************************************************************************)
C18_InvalidConfigRejected ==
  (\/ cfg.shipment_eggs <= 0
   \/ cfg.pre_hatch_cart_eggs <= 0
   \/ cfg.pre_hatch_machines <= 0
   \/ cfg.pre_hatch_days <= 0) =>
    /\ gen.pc \in {"new", "error"}
    /\ now = 0
    /\ queue = <<>>
    /\ \A s \in Shipments : ship[s].pc = "none"

(***************************************************************************)
(* C19: the flow records of every slot alternate: an acquire record comes  *)
(* first or after a release record, a release record comes after the       *)
(* acquire record of the same cart, so no other cart's acquire record lies *)
(* between them; a setter release record is stamped pre_hatch_days after   *)
(* its acquire record.  A slot whose last record is an acquire record is   *)
(* with the cart of the record, and a cart that holds a slot has written   *)
(* the acquire record.                                                     *)
(***************************************************************************)
Follows(a, b, dwell) ==
  /\ b.n = a.n + 1
  /\ \/ b.to_state = "acquired" /\ a.to_state \in {"none", "released"}
     \/ /\ b.to_state = "released"
        /\ a.to_state = "acquired"
        /\ b.cart_id = a.cart_id
        /\ dwell >= 0 => b.event_ts = a.event_ts + dwell * (86400 \div TicksPerDay)

C19_FlowRecordsAlternate ==
  [][/\ \A x \in DOMAIN flow.setter :
          flow'.setter[x] /= flow.setter[x]
            => Follows(flow.setter[x], flow'.setter[x], cfg.pre_hatch_days)
     /\ \A x \in DOMAIN flow.hatcher :
          flow'.hatcher[x] /= flow.hatcher[x]
            => Follows(flow.hatcher[x], flow'.hatcher[x], -1)
     /\ \A x \in DOMAIN flow.setter :
          flow'.setter[x].to_state = "acquired" =>
            LET p == flow'.setter[x].cart_id
            IN  cart'[p.s][p.i].pc \in {"setter_hold", "setter_put"}
                  /\ cart'[p.s][p.i].slot_id = x
     /\ \A c \in Carts' :
          cart'[c[1]][c[2]].pc \in {"setter_hold", "setter_put"} =>
            LET last == flow'.setter[cart'[c[1]][c[2]].slot_id]
            IN  last.to_state = "acquired" /\ last.cart_id = CartProc(c[1], c[2])
    ]_vars

\* a setter slot is with its second cart: an acquire, a release and an acquire record
C19_SlotReused ==
  \E x \in DOMAIN flow.setter :
    /\ flow.setter[x].n = 3
    /\ flow.setter[x].to_state = "acquired"
    /\ flow.setter[x].event_ts > 0

(***************************************************************************)
(* C20: a planning step takes min(remaining capacity, remaining load) from *)
(* a barn place that is out of cleaning and has free capacity, and the     *)
(* places are taken in the order empty, hosting the same shipment, hosting *)
(* only other shipments: every planning order lists exactly the eligible   *)
(* places, class by class, and when a place receives a portion, the        *)
(* eligible places of the earlier classes cannot absorb the whole load.    *)
(***************************************************************************)
\* the class of place p for shipment_id at time t: 1 empty, 2 own, 3 other, 0 not eligible
PlaceClass(bp, t, shipment_id, p) ==
  IF ~(t >= bp[p].cleaning_until /\ remaining_capacity(bp[p]) > 0) THEN 0
  ELSE IF bp[p].occupied = 0 THEN 1
  ELSE IF shipment_id \in DOMAIN bp[p].occupants THEN 2
  ELSE 3

RECURSIVE FreeIn(_, _)
FreeIn(bp, ps) ==
  IF ps = {} THEN 0
  ELSE LET p == CHOOSE x \in ps : TRUE
       IN  remaining_capacity(bp[p]) + FreeIn(bp, ps \ {p})

C20_PlanFollowsClassOrder ==
  [][/\ \A s \in Shipments :
          (InPlaceTruck(s) /\ Len(ship'[s].plan) = Len(ship[s].plan) + 1) =>
            LET entry == ship'[s].plan[Len(ship'[s].plan)]
                class == PlaceClass(barn_places, now', s, entry.place_id)
                earlier == {q \in Places :
                              PlaceClass(barn_places, now', s, q) \in 1 .. (class - 1)}
            IN  /\ class > 0
                /\ entry.amount = Min(remaining_capacity(barn_places[entry.place_id]),
                                      ship[s].remaining)
                /\ ship'[s].remaining = ship[s].remaining - entry.amount
                /\ FreeIn(barn_places, earlier) < ship[s].load
     /\ \A s \in Shipments :
          (ship'[s].ordered_ids /= ship[s].ordered_ids /\ ship'[s].ordered_ids /= <<>>) =>
            LET ids == ship'[s].ordered_ids
            IN  /\ \A i, j \in 1 .. Len(ids) :
                     i < j => /\ ids[i] /= ids[j]
                              /\ PlaceClass(barn_places', now', s, ids[i])
                                   <= PlaceClass(barn_places', now', s, ids[j])
                /\ {ids[i] : i \in 1 .. Len(ids)}
                     = {q \in Places : PlaceClass(barn_places', now', s, q) > 0}
    ]_vars

\* a portion is planned, and not applied yet, in a place that hosts only another shipment
C20_MixedWithOtherShipment ==
  \E s \in Shipments :
    /\ InPlaceTruck(s)
    /\ ship[s].plan /= <<>>
    /\ ship[s].applying = 0
    /\ LET entry == ship[s].plan[Len(ship[s].plan)]
       IN  /\ PlaceClass(barn_places, now, s, entry.place_id) = 3
           /\ \A q \in Places : PlaceClass(barn_places, now, s, q) \in {0, 3}

(***************************************************************************)
(* C21: in the plan a truck applies, each barn place appears at most once: *)
(* the apply loop makes one occupancy change and writes one barn flow      *)
(* record per entry, so at most one of each per truck and barn place, also *)
(* when the plan was built over several polling passes.                    *)
(***************************************************************************)
C21_PlaceOncePerTruck ==
  \A s \in Shipments :
    ship[s].pc = "apply_lock" =>
      \A i, j \in 1 .. Len(ship[s].plan) :
        i < j => ship[s].plan[i].place_id /= ship[s].plan[j].place_id

(***************************************************************************)
(* C22: while no barn place is eligible (every place is full or in         *)
(* cleaning), a step adds nothing of a truck that is in its placement call *)
(* to any barn place and the call does not complete.  A call that finds    *)
(* its order exhausted waits half a day and evaluates the order again;     *)
(* when the order it evaluates is empty it goes on waiting with its plan   *)
(* and remaining load unchanged, and in the first pass in which a place is *)
(* eligible it asks for the lock to plan on the first place of the order.  *)
(***************************************************************************)
\* the times at which the process of shipment s is resumed
WakeTimes(q, s) ==
  {q[k].t : k \in {j \in 1 .. Len(q) : q[j].kind = "resume" /\ q[j].p = ShipProc(s)}}

\* shipment s holds barn_lock or waits for it
LockAsked(lk, s) ==
  \/ \E k \in 1 .. Len(lk.users) : lk.users[k] = ShipProc(s)
  \/ \E k \in 1 .. Len(lk.putq) : lk.putq[k] = ShipProc(s)

\* no place is out of cleaning with free capacity at time t
NoneEligible(bp, t) ==
  \A p \in Places : ~(t >= bp[p].cleaning_until /\ remaining_capacity(bp[p]) > 0)

C22_BlocksWhileNoneEligible ==
  [][\A s \in Shipments :
       /\ (InPlaceTruck(s) /\ NoneEligible(barn_places, now')) =>
            /\ \A p \in Places :
                 Get(barn_places'[p].occupants, s) <= Get(barn_places[p].occupants, s)
            /\ ship'[s].pc \in {"poll", "plan_lock", "apply_lock"}
       /\ (ship'[s].pc = "poll" /\ ship'[s] /= ship[s]) =>
            /\ ship'[s].remaining > 0
            /\ ship'[s].idx >= Len(ship'[s].ordered_ids)
            /\ WakeTimes(queue', s) = {now' + PollInterval}
            /\ ~LockAsked(barn_lock', s)
       /\ (ship[s].pc = "poll" /\ ship'[s] /= ship[s]) =>
            LET order == recompute_order(barn_places, now', s)
            IN  /\ WakeTimes(queue, s) = {now'}
                /\ ship'[s].ordered_ids = order
                /\ IF order = <<>>
                   THEN /\ ship'[s].pc = "poll"
                        /\ ship'[s].plan = ship[s].plan
                        /\ ship'[s].remaining = ship[s].remaining
                        /\ ship'[s].added = 0
                        /\ barn_places' = barn_places
                   ELSE /\ ship'[s].pc = "plan_lock"
                        /\ ship'[s].candidate_id = order[1]
                        /\ LockAsked(barn_lock', s)
    ]_vars

(***************************************************************************)
(* A shipment of three carts that pass one after the other through a       *)
(* single setter slot, with hatch times over the whole hatch_days_range:   *)
(* the later carts ask for their hatcher slot after the first has hatched. *)
(***************************************************************************)
InitAffinity ==
  /\ cfg = [shipment_eggs |-> 3, pre_hatch_cart_eggs |-> 1,
            hatch_days_range |-> <<hatch_days_lo, hatch_days_hi>>,
            pre_hatch_machines |-> 1, pre_hatch_days |-> pre_hatch_days]
  /\ Started

NextAffinity == Hatchery

SpecAffinity == InitAffinity /\ [][NextAffinity]_vars

\* a put to the store has not run its trigger yet
PutPending(pc) ==
  \E k \in 1 .. Len(queue) :
    queue[k].kind = "putdone" /\ cart[queue[k].p.s][queue[k].p.i].pc = pc

\* a request with a machine filter waits although a slot of another machine is free
\* and none of its own
WaitsBesideFree(store) ==
  \E k \in 1 .. Len(store.getq) :
    /\ store.getq[k].filter /= 0
    /\ store.items /= <<>>
    /\ \A j \in 1 .. Len(store.items) : store.items[j].m /= store.getq[k].filter

(***************************************************************************)
(* C23: machine affinity is soft: no cart waits for a setter or hatcher    *)
(* slot of its shipment's preferred machine while every slot of that       *)
(* machine is leased and a slot of another machine is free in the pool.    *)
(***************************************************************************)
C23_AffinityIsSoft ==
  /\ ~PutPending("setter_put") => ~WaitsBesideFree(pre_hatch_slots)
  /\ ~PutPending("hatcher_put") => ~WaitsBesideFree(hatch_slots)

(***************************************************************************)
(* C24: a cart that asks for a setter slot after another cart of its       *)
(* shipment has acquired one asks with the shipment's preferred setter     *)
(* machine set, and likewise for hatcher slots; a preferred machine is the *)
(* machine of a slot that a cart of the shipment holds when it is set, and *)
(* once set it never changes.                                              *)
(***************************************************************************)
\* the cart has acquired a setter slot, now or before
HasSetter(c) ==
  \/ c.slot_id /= NoSlot
  \/ c.pc \in {"setter_put", "hatcher_get", "hatcher_hold", "hatcher_put", "done"}

\* the cart has acquired a hatcher slot, now or before
HasHatcher(c) ==
  \/ c.hatch_slot_id /= NoSlot
  \/ c.pc \in {"hatcher_put", "done"}

C24_AffinityToFirstSlot ==
  [][\A s \in Shipments :
       /\ \A i \in 1 .. Len(cart[s]) :
            /\ (cart[s][i].pc = "init" /\ cart'[s][i].pc = "setter_get") =>
                 ((\E j \in 1 .. Len(cart[s]) : j /= i /\ HasSetter(cart[s][j]))
                    => preferred.setter[s] /= 0)
            /\ (cart[s][i].pc = "setter_put" /\ cart'[s][i].pc = "hatcher_get") =>
                 ((\E j \in 1 .. Len(cart[s]) : j /= i /\ HasHatcher(cart[s][j]))
                    => preferred.hatcher[s] /= 0)
       /\ preferred.setter[s] /= 0 => preferred'.setter[s] = preferred.setter[s]
       /\ preferred.hatcher[s] /= 0 => preferred'.hatcher[s] = preferred.hatcher[s]
       /\ preferred'.setter[s] /= preferred.setter[s] =>
            \E i \in 1 .. Len(cart[s]) : cart[s][i].slot_id.m = preferred'.setter[s]
       /\ preferred'.hatcher[s] /= preferred.hatcher[s] =>
            \E i \in 1 .. Len(cart[s]) : cart[s][i].hatch_slot_id.m = preferred'.hatcher[s]
    ]_vars

(***************************************************************************)
(* The hatchery with shipments of two carts of one egg each and hatch      *)
(* times over the whole hatch_days_range.                                  *)
(***************************************************************************)
InitDwell ==
  /\ cfg = [shipment_eggs |-> 2, pre_hatch_cart_eggs |-> 1,
            hatch_days_range |-> <<hatch_days_lo, hatch_days_hi>>,
            pre_hatch_machines |-> pre_hatch_machines, pre_hatch_days |-> pre_hatch_days]
  /\ Started

NextDwell == Hatchery

SpecDwell == InitDwell /\ [][NextDwell]_vars

(***************************************************************************)
(* C25: a cart holds at most one slot at a time.  It holds one setter slot *)
(* and no hatcher slot from the acquisition until it puts the slot back,   *)
(* pre_hatch_days later; it holds none while it waits for a hatcher slot;  *)
(* it then holds one hatcher slot until it puts it back after a duration   *)
(* within hatch_days_range; a cart that has finished holds no slot.  A     *)
(* slot that is held is not in its pool, and the slots in a pool and the   *)
(* slots held are together the slots of the pool.                          *)
(***************************************************************************)
\* the slots cart c holds: acquired and not yet put back
HeldSetter(c) ==
  IF c.pc \in {"setter_get", "setter_hold"} /\ c.slot_id /= NoSlot THEN {c.slot_id} ELSE {}

HeldHatcher(c) ==
  IF c.pc \in {"hatcher_get", "hatcher_hold"} /\ c.hatch_slot_id /= NoSlot
  THEN {c.hatch_slot_id} ELSE {}

\* how long ago, in seconds, the record was stamped
Since(record) == current_timestamp(now) - record.event_ts

C25_OneSlotAtATime ==
  LET cs == Carts
  IN  /\ \A x \in cs :
           LET c == cart[x[1]][x[2]]
               p == CartProc(x[1], x[2])
           IN  /\ Cardinality(HeldSetter(c)) + Cardinality(HeldHatcher(c)) <= 1
               /\ \A slot \in HeldSetter(c) :
                    FreeCount(pre_hatch_slots, slot) = 0 /\ c.hatch_slot_id = NoSlot
               /\ \A slot \in HeldHatcher(c) :
                    FreeCount(hatch_slots, slot) = 0 /\ c.slot_id = NoSlot
               /\ c.pc = "setter_hold" =>
                    /\ HeldSetter(c) /= {}
                    /\ flow.setter[c.slot_id].cart_id = p
                    /\ Since(flow.setter[c.slot_id]) <= cfg.pre_hatch_days * SecondsPerTick
               /\ c.pc = "setter_put" =>
                    /\ flow.setter[c.slot_id].cart_id = p
                    /\ Since(flow.setter[c.slot_id]) = cfg.pre_hatch_days * SecondsPerTick
                    /\ c.hatch_slot_id = NoSlot
               /\ c.pc = "hatcher_hold" =>
                    /\ HeldHatcher(c) /= {}
                    /\ flow.hatcher[c.hatch_slot_id].cart_id = p
                    /\ Since(flow.hatcher[c.hatch_slot_id])
                         <= cfg.hatch_days_range[2] * SecondsPerTick
               /\ c.pc = "hatcher_put" =>
                    /\ flow.hatcher[c.hatch_slot_id].cart_id = p
                    /\ Since(flow.hatcher[c.hatch_slot_id])
                         >= cfg.hatch_days_range[1] * SecondsPerTick
                    /\ Since(flow.hatcher[c.hatch_slot_id])
                         <= cfg.hatch_days_range[2] * SecondsPerTick
               /\ c.pc \in {"init", "done"} =>
                    c.slot_id = NoSlot /\ c.hatch_slot_id = NoSlot
      /\ Len(pre_hatch_slots.items)
           + Cardinality({x \in cs : HeldSetter(cart[x[1]][x[2]]) /= {}})
           = cfg.pre_hatch_machines * pre_hatch_carts_per_machine
      /\ Len(hatch_slots.items)
           + Cardinality({x \in cs : HeldHatcher(cart[x[1]][x[2]]) /= {}})
           = total_hatch_slots

\* a cart puts its hatcher slot back after the longest hatch while another cart, which
\* has put its setter slot back, waits for a hatcher slot
C25_WaitsWithoutSlot ==
  \E x, y \in Carts :
    /\ cart[x[1]][x[2]].pc = "hatcher_put"
    /\ Since(flow.hatcher[cart[x[1]][x[2]].hatch_slot_id]) = hatch_days_hi * SecondsPerTick
    /\ cart[y[1]][y[2]].pc = "hatcher_get"
    /\ cart[y[1]][y[2]].hatch_slot_id = NoSlot
    /\ hatch_slots.getq /= <<>>

(***************************************************************************)
(* C26: when a grow-out cycle for (place, shipment, amount) completes,     *)
(* whatever the survival rate: survivors + losses = amount with            *)
(* 0 <= survivors <= amount, exactly one SlaughterRecord is appended, with *)
(* the survivors as quantity, and the place's quantity for the shipment    *)
(* decreases by min(amount, current quantity), its entry being deleted     *)
(* when it reaches zero.                                                   *)
(***************************************************************************)
\* the grow-out cycles that complete in this step
Completing == {n \in 1 .. Len(cycles) : cycles[n].pc = "growing" /\ cycles'[n].pc /= "growing"}

C26_GrowOutCompletes ==
  [][/\ Len(slaughter_records') /= Len(slaughter_records) =>
          /\ Len(slaughter_records') = Len(slaughter_records) + 1
          /\ Cardinality(Completing) = 1
     /\ \A n \in Completing :
          LET c == cycles[n]
              rec == slaughter_records'[Len(slaughter_records')]
              before == Get(barn_places[c.place_id].occupants, c.shipment_id)
              after == Get(barn_places'[c.place_id].occupants, c.shipment_id)
          IN  /\ Len(slaughter_records') = Len(slaughter_records) + 1
              /\ SubSeq(slaughter_records', 1, Len(slaughter_records)) = slaughter_records
              /\ rec.shipment_id = c.shipment_id
              /\ rec.place_id = c.place_id
              /\ rec.day = now'
              /\ rec.quantity + rec.losses = c.amount
              /\ 0 <= rec.quantity
              /\ rec.quantity <= c.amount
              /\ rec.removed = Min(c.amount, before)
              /\ after = before - Min(c.amount, before)
              /\ after = 0 <=> c.shipment_id \notin DOMAIN barn_places'[c.place_id].occupants
              /\ \A x \in DOMAIN barn_places[c.place_id].occupants \ {c.shipment_id} :
                   Get(barn_places'[c.place_id].occupants, x)
                     = barn_places[c.place_id].occupants[x]
    ]_vars

\* a cycle has just removed a part of what its shipment holds in the place, with losses
C26_PartOfShipmentRemoved ==
  /\ slaughter_records /= <<>>
  /\ LET rec == slaughter_records[Len(slaughter_records)]
     IN  /\ rec.day = now
         /\ rec.removed > 0
         /\ rec.losses > 0
         /\ rec.quantity > 0
         /\ Get(barn_places[rec.place_id].occupants, rec.shipment_id) > 0

(***************************************************************************)
(* C27: after any sequence of BarnPlace.add and BarnPlace.decrement calls  *)
(* with positive amounts, occupied is the sum of the occupant quantities,  *)
(* occupied is not negative, and every quantity stored in occupants is     *)
(* strictly positive: an entry is deleted as soon as it reaches zero.      *)
(***************************************************************************)
C27_OccupiedIsSumOfOccupants ==
  \A p \in Places :
    /\ barn_places[p].occupied = SumOccupants(barn_places[p].occupants)
    /\ barn_places[p].occupied >= 0
    /\ \A x \in DOMAIN barn_places[p].occupants : barn_places[p].occupants[x] > 0

\* a decrement has just deleted the entry of one shipment beside that of another
C27_EntryDeletedBesideAnother ==
  /\ call.op = "decrement"
  /\ call.ret > 0
  /\ call.ret < call.amount
  /\ call.shipment_id \notin DOMAIN barn_places[call.place_id].occupants
  /\ barn_places[call.place_id].occupants /= NoOccupants

(***************************************************************************)
(* The program under fair scheduling: the event loop of env.run processes  *)
(* the next event as long as there is one before the horizon.              *)
(***************************************************************************)
SpecLive == Init /\ [][Next]_vars /\ WF_vars(Next)

\* shipment s holds barn_lock; shipment s waits for it
LockHeld(s) == \E k \in 1 .. Len(barn_lock.users) : barn_lock.users[k] = ShipProc(s)
LockWaited(s) == \E k \in 1 .. Len(barn_lock.putq) : barn_lock.putq[k] = ShipProc(s)

\* the requests of shipment s that are granted or waiting
LockRequests(s) ==
  Cardinality({k \in 1 .. Len(barn_lock.users) : barn_lock.users[k] = ShipProc(s)})
  + Cardinality({k \in 1 .. Len(barn_lock.putq) : barn_lock.putq[k] = ShipProc(s)})

GenWakes(q) == {q[k].t : k \in {j \in 1 .. Len(q) : q[j].p = GenProc}}

\* the shipment processes a step starts
Spawns == {s \in Shipments : ship[s].pc = "none" /\ ship'[s].pc /= "none"}

SCARCE_FARM_SPECS == << [capacity_chicks |-> 2, barns |-> 2] >>

InitScarce ==
  /\ cfg = [shipment_eggs |-> shipment_eggs, pre_hatch_cart_eggs |-> pre_hatch_cart_eggs,
            hatch_days_range |-> <<hatch_days_lo, hatch_days_lo>>,
            pre_hatch_machines |-> pre_hatch_machines, pre_hatch_days |-> pre_hatch_days]
  /\ ConstructedWith(1)
  /\ barn_places = EmptyPlaces(InitialiseBarnPlaces(SCARCE_FARM_SPECS))

SpecScarce == InitScarce /\ [][Next]_vars /\ WF_vars(Next)

\* the free capacity of the places out of cleaning at time t
RECURSIVE EligibleFree(_, _, _)
EligibleFree(bp, t, p) ==
  IF p = 0 THEN 0
  ELSE (IF t >= bp[p].cleaning_until THEN remaining_capacity(bp[p]) ELSE 0)
       + EligibleFree(bp, t, p - 1)

\* the truck of shipment s is in _place_truck and the eligible places offer less
\* than what it still has to place
Starved(s) ==
  /\ InPlaceTruck(s)
  /\ EligibleFree(barn_places, now, Len(barn_places)) < ship[s].remaining

\* every truck unit is back and every shipment that was started is over
Settled ==
  /\ truck_slots.getq = <<>>
  /\ TruckHolders = {}
  /\ \A s \in Shipments : ship[s].pc \in {"none", "empty", "done"}

(***************************************************************************)
(* C30: a truck in _place_truck holds its truck unit, through every wait   *)
(* for barn capacity: the units out of the pool are those of the trucks    *)
(* granted, in transit or being placed.  With every runnable event         *)
(* processed, unless the eligible places offer less than some truck being  *)
(* placed still has to place, every unit is returned and every shipment    *)
(* terminates.                                                             *)
(***************************************************************************)
C30_TrucksReturnUnlessStarved ==
  /\ [](/\ truck_slots.level + Cardinality(TruckHolders) = 1
        /\ \A s \in Shipments : InPlaceTruck(s) => s \in TruckHolders /\ ~TruckWaiting(s))
  /\ []<>(Settled \/ \E s \in Shipments : Starved(s))

\* the barns are full: the truck being placed waits with the only truck unit and the
\* truck of the other shipment waits for a unit
C30_AllUnitsHeldByWaiting ==
  /\ truck_slots.level = 0
  /\ \E s \in Shipments :
       /\ ship[s].pc = "poll"
       /\ Starved(s)
       /\ \A p \in Places : remaining_capacity(barn_places[p]) = 0
       /\ \E o \in Shipments : o /= s /\ ship[o].pc = "truck_get" /\ TruckWaiting(o)

====
